---- MODULE Spec2Model ----
(***************************************************************************)
(* Model of the Jira filter refresh engine of ha-integration-jirafilters.  *)
(*                                                                         *)
(* Two implementations of one refresh cycle are modelled side by side:     *)
(*   host  : JiraFiltersCoordinator._fetch_jira_data                       *)
(*           (custom_components/jira_filters/sensor.py)                    *)
(*   batch : run_filters + JiraClient.get_filter + JiraClient.search_issues*)
(*           (jira_view_filter.py)                                         *)
(* and with them the config flow's one-filter test                         *)
(*   probe : _test_filter_count                                            *)
(*           (custom_components/jira_filters/config_flow.py)               *)
(* These three run under Spec.  EntrySpec is the long-lived mode: setup of  *)
(* the config entry, the coordinator's refresh cycles, the refresh service *)
(* and the sensors (__init__.py, sensor.py).  NormalizerSpec, RecencySpec  *)
(* and HumanTimeSpec apply _simplify_issue, the selection of the most      *)
(* recent ticket and format_human_time to arguments drawn from bounded     *)
(* sets.                                                                   *)
(*                                                                         *)
(* The Jira server is the environment: every HTTP request is answered by a *)
(* nondeterministic choice among the outcomes the requests library can     *)
(* deliver (2xx with a body, non-2xx status, transport failure).           *)
(*                                                                         *)
(* Python values: None of a string-valued slot is the string NULL; None of *)
(* a mapping-valued slot is the empty tuple None and a present mapping m   *)
(* is Some(m).  A dict is an insertion-ordered sequence of entries.        *)
(***************************************************************************)
EXTENDS Integers, Sequences, FiniteSets, TLC

\* ---------------------------------------------------------------- bounds
MaxFilters == 2     \* longest list of requested filters
MaxN       == 2     \* largest max_results
MaxIssues  == 3     \* most issues the server holds for one query
MaxEntries == 2    \* config entries of the domain
MaxStored  == 3     \* longest filter list a flow builds or stores
MaxUnits   == 45    \* longest age, counted in minutes, hours and days

\* ------------------------------------------------------------- constants
PageCap == 1000     \* min(1000, remaining) in search_issues
AttrLimit == 10     \* issues[:10] in extra_state_attributes

NULL    == "None"
None    == <<>>
Some(x) == <<x>>

\* Filter ids are opaque strings; the requested lists are f1, f1 f2, ...
\* (pairwise distinct ids).
FilterId(n) == "f" \o ToString(n)
FilterLists == {[i \in 1..n |-> FilterId(i)] : n \in 0..MaxFilters}

\* The jql strings a filter definition can carry ("" also stands for a
\* definition without a jql key: filter_data.get("jql", "") / not jql).
Jqls == {"", "project = A"}

\* ISO-8601 timestamps; Python compares them as strings, StrRank gives their
\* position in lexicographic order.
Jan == "2024-01-01T00:00:00Z"
Feb == "2024-02-01T00:00:00Z"
Mar == "2024-03-01T00:00:00Z"
Timestamps == {Jan, Feb, Mar}
\* Text in the updated slot that is no date (day 32), and a date without a
\* UTC offset.  As strings BadStamp sorts after Mar; NaiveStamp is a proper
\* prefix of Mar and sorts just before it:
\*   Jan < Feb < NaiveStamp < Mar < BadStamp.
BadStamp   == "2024-03-32T00:00:00Z"
NaiveStamp == "2024-03-01T00:00:00"
StrRank(s) ==
    IF s = Jan THEN 1 ELSE IF s = Feb THEN 2 ELSE IF s = NaiveStamp THEN 3
    ELSE IF s = Mar THEN 4 ELSE 5

\* Outcomes of one HTTP request as the requests library reports them.
\*   ok          2xx, body decoded by .json() into a JSON object
\*   not_object  2xx, body decodes to truthy JSON that is not an object
\*               (a non-empty list, a non-empty string, a non-zero number)
\*   falsy       2xx, body decodes to falsy JSON that is not an object
\*               ([], null, 0, ""): `.get` raises on it as on not_object,
\*               but a truth test (`if not filter_obj`) takes it for None
\*   http_error  non-2xx: raise_for_status() raises HTTPError
\*   transport   timeout / connection failure: Timeout, ConnectionError
HTTPError == "HTTPError"
Timeout   == "Timeout"
FailOutcomes == {"http_error", "transport"}
NonObjects   == {"not_object", "falsy"}
Outcomes     == {"ok"} \cup NonObjects \cup FailOutcomes
ExcOf(out) == IF out = "http_error" THEN HTTPError ELSE Timeout

\* ----------------------------------------------------------- raw issues
\* A raw issue as the server sends it: key is its position in the server's
\* result order, fields is None ("fields": null) or Some([updated |-> u]).
RawFields ==
    {None} \cup {Some([updated |-> u]) : u \in Timestamps \cup {BadStamp, NULL}}
RawIssue(k, fl) == [key |-> k, fields |-> fl]

\* What the server holds for a query is one of three kinds of issue lists:
\*   dated      every issue has an updated timestamp (Jan, Mar, Feb, Jan, ...)
\*   undated    no issue has an updated value
\*   no_fields  every issue is sent with "fields": null
\*   malformed  as dated, but the first issue's updated value is no date
Patterns == {"dated", "undated", "no_fields", "malformed"}
FieldsAt(pattern, k) ==
    IF pattern = "no_fields" THEN None
    ELSE IF pattern = "undated" THEN Some([updated |-> NULL])
    ELSE IF pattern = "malformed" /\ k = 1 THEN Some([updated |-> BadStamp])
    ELSE Some([updated |-> IF k = 2 THEN Mar ELSE IF k = 3 THEN Feb ELSE Jan])

\* A JSON object is a function on the keys it has.  d.get(k) of a slot that
\* holds an object or a list (GetObj) and of a slot that holds a string
\* (GetStr): None for a missing key as for a null value.
GetObj(d, k) == IF k \in DOMAIN d THEN d[k] ELSE None
GetStr(d, k) == IF k \in DOMAIN d THEN d[k] ELSE NULL
\* x or {}
OrEmpty(x) == IF x = None THEN <<>> ELSE x[1]
\* isinstance(x, dict) of a slot that holds an object or null
IsDict(x) == x # None
\* truth value of a dict
Truthy(d) == DOMAIN d # {}

\* _simplify_issue: fields = issue.get('fields', {}) is {} for a missing key
\* and None for "fields": null; fields.get(...) then raises AttributeError.
SimplifyRaises(issue) == "fields" \in DOMAIN issue /\ issue.fields = None
simplify_issue(issue) ==
    LET fields     == IF "fields" \in DOMAIN issue
                      THEN issue.fields[1] ELSE <<>>
        status     == OrEmpty(GetObj(fields, "status"))
        assignee   == OrEmpty(GetObj(fields, "assignee"))
        priority   == OrEmpty(GetObj(fields, "priority"))
        issue_type == OrEmpty(GetObj(fields, "issuetype"))
        parent     == OrEmpty(GetObj(fields, "parent"))
    IN
    [id |-> GetStr(issue, "id"),
     key |-> GetStr(issue, "key"),
     summary |-> GetStr(fields, "summary"),
     status |->
        [name |-> GetStr(status, "name"),
         category |->
            IF IsDict(GetObj(status, "statusCategory"))
            THEN GetStr(OrEmpty(GetObj(status, "statusCategory")), "name")
            ELSE NULL],
     assignee |->
        IF Truthy(assignee)
        THEN Some([accountId |-> GetStr(assignee, "accountId"),
                   displayName |-> GetStr(assignee, "displayName"),
                   emailAddress |-> GetStr(assignee, "emailAddress")])
        ELSE None,
     priority |-> IF Truthy(priority) THEN GetStr(priority, "name") ELSE NULL,
     issueType |->
        IF Truthy(issue_type) THEN GetStr(issue_type, "name") ELSE NULL,
     parent |->
        IF Truthy(parent)
        THEN Some([key |-> GetStr(parent, "key"),
                   id |-> GetStr(parent, "id"),
                   summary |->
                      IF IsDict(GetObj(parent, "fields"))
                      THEN GetStr(OrEmpty(GetObj(parent, "fields")), "summary")
                      ELSE NULL])
        ELSE None,
     \* fields.get('labels', []): Some(list), or None for "labels": null
     labels |-> IF "labels" \in DOMAIN fields THEN fields.labels
                ELSE Some(<<>>),
     created |-> GetStr(fields, "created"),
     updated |-> GetStr(fields, "updated")]

RECURSIVE SimplifyAll(_)
SimplifyAll(raw) ==
    IF raw = <<>> THEN <<>>
    ELSE <<simplify_issue(Head(raw))>> \o SimplifyAll(Tail(raw))

AnySimplifyRaises(raw) == \E i \in 1..Len(raw) : SimplifyRaises(raw[i])

\* sorted(issues, key=lambda x: x.get('updated', ''), reverse=True):
\* with two or more elements the keys are compared with <, and comparing
\* None with anything raises TypeError.
SortRaises(issues) ==
    Len(issues) >= 2 /\ \E i \in 1..Len(issues) : issues[i].updated = NULL

\* A descending sort that reverses an ascending stable sort: of the issues
\* with the greatest key it puts the latest first.
SortedFirstReversed(issues) ==
    IF Len(issues) = 1 THEN issues[1]
    ELSE LET best == CHOOSE i \in 1..Len(issues) :
                        /\ \A j \in 1..Len(issues) :
                              StrRank(issues[j].updated) <= StrRank(issues[i].updated)
                        /\ \A j \in (i+1)..Len(issues) :
                              StrRank(issues[j].updated) < StrRank(issues[i].updated)
         IN issues[best]

\* sorted(...)[0]: the sort is stable, also with reverse=True, so the first
\* element is the earliest issue among those with the greatest key.
SortedFirst(issues) ==
    IF Len(issues) = 1 THEN issues[1]
    ELSE LET best == CHOOSE i \in 1..Len(issues) :
                        /\ \A j \in 1..Len(issues) :
                              StrRank(issues[j].updated) <= StrRank(issues[i].updated)
                        /\ \A j \in 1..(i-1) :
                              StrRank(issues[j].updated) < StrRank(issues[i].updated)
         IN issues[best]

\* ------------------------------------------------------- relative age
\* datetime.now(timezone.utc), in POSIX seconds.
VARIABLE now

\* datetime.fromisoformat(timestamp_str.replace('Z', '+00:00')) raises
\* ValueError for text that is no ISO date; for a date without an offset it
\* returns a naive datetime and `now - dt` raises TypeError.
DiffRaises(timestamp_str) == timestamp_str \notin Timestamps
\* POSIX seconds of the parsed timestamp.
Seconds(timestamp_str) ==
    IF timestamp_str = Jan THEN 1704067200
    ELSE IF timestamp_str = Feb THEN 1706745600
    ELSE 1709251200

\* f"{n} {unit}{'s' if n != 1 else ''} ago"
Ago(n, unit) ==
    ToString(n) \o " " \o unit \o (IF n # 1 THEN "s" ELSE "") \o " ago"

\* The branches on diff.days and diff.seconds; a timedelta is normalised to
\* days = floor(diff / 86400) and 0 <= seconds < 86400.
RelativeAge(diff) ==
    LET days    == diff \div 86400
        seconds == diff % 86400
    IN
    IF days > 0
    THEN IF days = 1 THEN "1 day ago"
         ELSE IF days < 7 THEN ToString(days) \o " days ago"
         ELSE IF days < 30 THEN Ago(days \div 7, "week")
         ELSE Ago(days \div 30, "month")
    ELSE IF seconds > 3600 THEN Ago(seconds \div 3600, "hour")
    ELSE IF seconds > 60 THEN Ago(seconds \div 60, "minute")
    ELSE "just now"

\* format_human_time without its try block, reading what it can of the text.
format_human_time_lenient(timestamp_str, clock) ==
    RelativeAge(clock - Seconds(timestamp_str))

\* format_human_time / _format_human_time: `except Exception` turns every
\* failure of the parse and of the subtraction into "unknown time".
format_human_time(timestamp_str, clock) ==
    IF DiffRaises(timestamp_str) THEN "unknown time"
    ELSE RelativeAge(clock - Seconds(timestamp_str))

\* most_recent_ticket of one result (summary is a projection of the same
\* issue): updated_human is computed only for a truthy updated value.
MostRecentTicket(issues) ==
    IF issues = <<>> THEN None
    ELSE LET most_recent == SortedFirst(issues) IN
         Some([key |-> most_recent.key,
               updated |-> most_recent.updated,
               updated_human |->
                  IF most_recent.updated = NULL THEN NULL
                  ELSE format_human_time(most_recent.updated, now)])

\* ------------------------------------------------------ filter results
\* A success entry that leaves the most recent ticket out.
SuccessResultNoTicket(f, name, q, issues) ==
    [filter_id |-> f, filter_name |-> name, jql |-> q,
     total_count |-> Len(issues), issues |-> issues,
     most_recent_ticket |-> None, error |-> NULL]

\* The success entry (sensor.py 232-240, jira_view_filter.py 281-298); a
\* missing 'error' key reads as None.  total_count is 'total_returned' in
\* the batch variant.
SuccessResult(f, name, q, issues) ==
    [filter_id |-> f, filter_name |-> name, jql |-> q,
     total_count |-> Len(issues), issues |-> issues,
     most_recent_ticket |-> MostRecentTicket(issues), error |-> NULL]

\* The error entry of the host variant (sensor.py 244-253).
ErrorResultSentinel(f, name, e) ==
    [filter_id |-> f, filter_name |-> name, jql |-> "",
     total_count |-> -1, issues |-> <<>>,
     most_recent_ticket |-> None, error |-> e]

ErrorResult(f, name, e) ==
    [filter_id |-> f, filter_name |-> name, jql |-> "",
     total_count |-> 0, issues |-> <<>>,
     most_recent_ticket |-> None, error |-> e]

\* results[filter_id] = entry on an insertion-ordered dict.
DictSet(d, entry) ==
    IF \E i \in 1..Len(d) : d[i].filter_id = entry.filter_id
    THEN [i \in 1..Len(d) |->
             IF d[i].filter_id = entry.filter_id THEN entry ELSE d[i]]
    ELSE Append(d, entry)

\* filter_name of the host variant is the configured name; the batch
\* variant takes the server's name.  The configured name is the text the
\* config flow stored, which can be another than the server's name now.
ServerName(f) == "srv " \o f
\* A name that is read from the filter definition in every cycle.
ConfigNameRefetched(f) == ServerName(f)
\* filter_config["filter_name"] (sensor.py 119)
ConfigName(f) == "cfg " \o f

\* ---------------------------------------------------------------- state
VARIABLES
    variant,          \* "host" (_fetch_jira_data), "batch" (run_filters)
                      \* or "probe" (_test_filter_count)
    filters,          \* the requested filter ids, in order
    max_results,      \* self.max_results / limit
    pc,               \* start, resolve, search, assemble, done, failed;
                      \* idle, entities in EntrySpec; call, returned,
                      \* raised for a function taken by itself
    idx,              \* position of the filter being processed
    jql,              \* jql of the filter being processed
    ep,               \* host, probe: rank of the next search endpoint
    collected,        \* search_issues: collected
    total_fetched,    \* search_issues: total_fetched
    next_page_token,  \* search_issues: next_page_token (0: None or "")
    search_data,      \* search_issues: data, the page decoded last
    results,          \* host: results dict; batch: results list
    probe,            \* config flow: what _test_filter_count returned
    exc,              \* the exception that ended the cycle, NULL if none
    reqs,             \* history: requests issued for the current filter
    srv,              \* history: what the server holds for the current query
    \* the config entry in Home Assistant
    phase,            \* unloaded, setup, loaded, setup_failed
    hass_data,        \* hass.data[DOMAIN][entry_id], None before setup
    services,         \* the registered services of the domain
    data,             \* coordinator.data: None or Some(results)
    last_update_success,  \* coordinator.last_update_success
    unsub_refresh,    \* the interval timer is armed
    inflight,         \* refresh cycles started and not yet ended
    log,              \* what handle_refresh_service logged last
    \* the batch process (main of jira_view_filter.py)
    stdout,           \* the documents printed on standard output
    exit_code,        \* None while it runs, then Some(status)
    \* a function taken by itself
    arg,              \* its argument
    ret,              \* what it returned
    \* the config flow and the options flow (config_flow.py)
    cur_step,         \* the step whose form is shown; none, created,
                      \* finished when no flow is in progress
    errors,           \* errors["base"] of the form shown, NULL if none
    self_data,        \* self._data: None for {} or Some(settings)
    self_filters,     \* self._filters
    filter_to_edit,   \* self._filter_to_edit: None or Some(filter)
    flow_pc,          \* where the step in progress stands: form (it waits
                      \* for input), unload, setup (it awaits the
                      \* reload), raised (an exception left it)
    validated,        \* history: ids _validate_filter accepted in this flow
    connected,        \* history: the connection test of this flow passed
    \* the config entries of the domain (__init__.py)
    entry_pc,         \* per entry: where its setup or unload stands
    entry_data,       \* per entry: entry.data
    domain_data       \* hass.data[DOMAIN]: the slots by entry id

vars == <<variant, filters, max_results, pc, idx, jql, ep, collected,
          total_fetched, next_page_token, search_data, results, probe, exc, reqs, srv,
          now, phase, hass_data, services, data, last_update_success,
          unsub_refresh, inflight, log, stdout, exit_code, arg, ret,
          cur_step, errors, self_data, self_filters, filter_to_edit,
          flow_pc, validated, connected,
          entry_pc, entry_data, domain_data>>

\* A request that never carries a continuation token.
ReqNoToken(f, endpoint, rank, q, size, token, out) ==
    [f |-> f, ep |-> endpoint, rank |-> rank, jql |-> q, size |-> size,
     token |-> 0, out |-> out]

\* One issued request and its outcome.  rank is the position of a search
\* endpoint in the variant's order of preference (0 for the filter lookup).
Req(f, endpoint, rank, q, size, token, out) ==
    [f |-> f, ep |-> endpoint, rank |-> rank, jql |-> q, size |-> size,
     token |-> token, out |-> out]

\* A search that asks the first endpoint again after a failure.
HostEndpointAgain(n) == "GET /rest/api/3/search"

\* sensor.py 157 / 183 / 204: GET search, POST search, POST search/jql.
HostEndpoint(n) ==
    IF n = 1 THEN "GET /rest/api/3/search"
    ELSE IF n = 2 THEN "POST /rest/api/3/search"
    ELSE "POST /rest/api/3/search/jql"

\* config_flow.py 684 / 695 / 704: POST search/jql, POST search, GET search.
ProbeEndpoint(n) ==
    IF n = 1 THEN "POST /rest/api/3/search/jql"
    ELSE IF n = 2 THEN "POST /rest/api/3/search"
    ELSE "GET /rest/api/3/search"

\* The nested handlers around the search requests (sensor.py 168 and 190,
\* config_flow.py 692 and 703) are `except HTTPError` and wrap the first
\* two endpoints only: an HTTP error status of endpoint 1 or 2 is followed
\* by the next endpoint, anything else leaves the nest.
FallsBack(n, out) == out = "http_error" /\ n < 3

BatchEndpoint == "GET /rest/api/3/search/jql"
FilterEndpoint == "GET /rest/api/3/filter"

\* A page of cnt raw issues starting after position o of the server's order.
Page(pattern, o, cnt) ==
    [i \in 1..cnt |-> RawIssue(o + i, FieldsAt(pattern, o + i))]

\* A server that answers as the Jira API documents: never more issues than
\* asked for, an empty page only when nothing is left (or nothing was asked).
HonestCount(cnt, size, o, held) ==
    cnt <= size /\ (cnt = 0 => (size = 0 \/ o = held))

\* The page size without the cap's remainder.
MinFirst(a, b) == a

Min(a, b) == IF a < b THEN a ELSE b

\* Readings of the clock during a cycle: 90 seconds and 40 days after Mar.
Clocks == {Seconds(Mar) + 90, Seconds(Mar) + 40 * 86400}

\* No config entry is loaded.
NoEntry ==
    /\ phase = "unloaded"
    /\ hass_data = None
    /\ services = {}
    /\ data = None
    /\ last_update_success = TRUE
    /\ unsub_refresh = FALSE
    /\ inflight = 0
    /\ log = NULL
\* No function is taken by itself.
NoCall == arg = <<>> /\ ret = <<>>
\* Nothing was printed and no process has exited.
NoProcess == stdout = <<>> /\ exit_code = None
\* No flow is in progress.
NoFlow ==
    /\ cur_step = "none"
    /\ errors = NULL
    /\ self_data = None
    /\ self_filters = <<>>
    /\ filter_to_edit = None
    /\ flow_pc = "form"
    /\ validated = {}
    /\ connected = FALSE
\* The domain has no config entries.
NoStore ==
    /\ entry_pc = <<>>
    /\ entry_data = <<>>
    /\ domain_data = <<>>

Init ==
    /\ NoEntry /\ NoCall /\ NoProcess /\ NoFlow /\ NoStore
    /\ now \in Clocks
    /\ variant \in {"host", "batch", "probe"}
    /\ filters \in FilterLists
    /\ variant = "probe" => Len(filters) = 1
    /\ max_results \in 0..MaxN
    /\ pc = "start"
    /\ idx = 1
    /\ jql = ""
    /\ ep = 1
    /\ collected = <<>>
    /\ total_fetched = 0
    /\ next_page_token = 0
    /\ search_data = None
    /\ results = <<>>
    /\ probe = None
    /\ exc = NULL
    /\ reqs = <<>>
    /\ srv = [held |-> 0, pattern |-> "dated", honest |-> TRUE]

\* Move on to the next filter of the for loop, or return results.
NextFilter ==
    /\ idx' = idx + 1
    /\ pc' = IF idx >= Len(filters) THEN "done" ELSE "resolve"

\* An exception no handler of the cycle catches.
Raise(e) ==
    /\ pc' = "failed"
    /\ exc' = e

config == <<variant, filters, max_results>>
paging == <<collected, total_fetched, next_page_token, search_data>>
entry  == <<phase, hass_data, services, data, last_update_success,
            unsub_refresh, inflight, log>>
call   == <<arg, ret>>
process == <<stdout, exit_code>>
flow   == <<cur_step, errors, self_data, self_filters, filter_to_edit,
            flow_pc, validated, connected>>
store  == <<entry_pc, entry_data, domain_data>>

\* ------------------------------------------ host: _fetch_jira_data
\* sensor.py 104-115: the session and the empty results dict.
HostBegin ==
    /\ pc = "start" /\ variant = "host"
    /\ results' = <<>>
    /\ idx' = 1
    /\ pc' = IF filters = <<>> THEN "done" ELSE "resolve"
    /\ UNCHANGED <<config, process, now, flow, store, entry, call, paging, jql, ep, probe, exc,
                   reqs, srv>>

\* sensor.py 242-253: except RequestException stores the error entry and
\* the for loop goes on.
HostCatch(f, e) ==
    /\ results' = DictSet(results, ErrorResult(f, ConfigName(f), e))
    /\ NextFilter
    /\ exc' = exc

\* sensor.py 121-131: GET filter/{id}, raise_for_status, json, jql.
HostGetFilter ==
    /\ pc = "resolve" /\ variant = "host"
    /\ LET f == filters[idx] IN
       \E out \in Outcomes :
          /\ reqs' = <<Req(f, FilterEndpoint, 0, "", 0, 0, out)>>
          /\ \/ /\ out = "ok"
                /\ \E q \in Jqls, held \in 0..MaxIssues, pat \in Patterns :
                      /\ jql' = q
                      /\ srv' = [held |-> held, pattern |-> pat,
                                 honest |-> TRUE]
                /\ ep' = 1
                /\ pc' = "search"
                /\ UNCHANGED <<idx, results, exc>>
             \/ /\ out \in NonObjects
                /\ Raise("AttributeError")
                /\ UNCHANGED <<idx, results, jql, ep, srv>>
             \/ /\ out \in FailOutcomes
                /\ HostCatch(f, ExcOf(out))
                /\ UNCHANGED <<jql, ep, srv>>
    /\ UNCHANGED <<config, process, now, flow, store, entry, call, paging, probe>>

\* sensor.py 215-240: decode the page, simplify every issue, find the most
\* recent one and store the entry.  Nothing limits the issues to max_results.
HostAssemble(f, page) ==
    IF AnySimplifyRaises(page)
    THEN Raise("AttributeError") /\ UNCHANGED <<idx, results>>
    ELSE IF SortRaises(SimplifyAll(page))
    THEN Raise("TypeError") /\ UNCHANGED <<idx, results>>
    ELSE /\ results' = DictSet(results,
                SuccessResult(f, ConfigName(f), jql, SimplifyAll(page)))
         /\ NextFilter
         /\ exc' = exc

\* One attempt on the search endpoint of rank n (sensor.py 154-214).  Only
\* HTTPError moves on to the next endpoint; the last endpoint's HTTPError
\* and every other RequestException reach the handler of line 242.
HostSearchAttempt(n) ==
    /\ pc = "search" /\ variant = "host" /\ ep = n
    /\ LET f == filters[idx] IN
       \E out \in Outcomes :
          /\ reqs' = Append(reqs,
                 Req(f, HostEndpoint(n), n, jql, max_results, 0, out))
          /\ \/ /\ out = "ok"
                /\ \E cnt \in 0..srv.held :
                      /\ srv' = [srv EXCEPT !.honest =
                             @ /\ HonestCount(cnt, max_results, 0, srv.held)]
                      /\ HostAssemble(f, Page(srv.pattern, 0, cnt))
                /\ UNCHANGED ep
             \/ /\ out \in NonObjects
                /\ Raise("AttributeError")
                /\ UNCHANGED <<idx, results, ep, srv>>
             \/ /\ out \in FailOutcomes /\ FallsBack(n, out)
                /\ ep' = n + 1
                /\ UNCHANGED <<pc, idx, results, exc, srv>>
             \/ /\ out \in FailOutcomes /\ ~FallsBack(n, out)
                /\ HostCatch(f, ExcOf(out))
                /\ UNCHANGED <<ep, srv>>
    /\ UNCHANGED <<config, process, now, flow, store, entry, call, paging, jql, probe>>

HostSearchGet  == HostSearchAttempt(1)
HostSearchPost == HostSearchAttempt(2)
HostSearchJql  == HostSearchAttempt(3)

\* ------------------------------------------------ batch: run_filters
\* jira_view_filter.py 259: results = [].
BatchBegin ==
    /\ pc = "start" /\ variant = "batch"
    /\ results' = <<>>
    /\ idx' = 1
    /\ pc' = IF filters = <<>> THEN "done" ELSE "resolve"
    /\ UNCHANGED <<config, process, now, flow, store, entry, call, paging, jql, ep, probe, exc,
                   reqs, srv>>

\* jira_view_filter.py 261-270 with get_filter (150-163): a failed lookup
\* returns None and the filter is skipped with `continue` (262-263); so is
\* every falsy body, the test being `if not filter_obj`; so is a filter
\* without jql.  A truthy body that is no object reaches filter_obj.get
\* (264) and raises AttributeError.  search_issues then starts with an empty collection, and its
\* while condition is tested for the first time.
BatchGetFilter ==
    /\ pc = "resolve" /\ variant = "batch"
    /\ LET f == filters[idx] IN
       \E out \in Outcomes :
          /\ reqs' = <<Req(f, FilterEndpoint, 0, "", 0, 0, out)>>
          /\ \/ /\ out = "ok"
                /\ \E q \in Jqls, held \in 0..MaxIssues, pat \in Patterns :
                      /\ jql' = q
                      /\ srv' = [held |-> held, pattern |-> pat,
                                 honest |-> TRUE]
                      /\ IF q = ""
                         THEN NextFilter
                         ELSE /\ pc' = IF 0 < max_results
                                       THEN "search" ELSE "assemble"
                              /\ idx' = idx
                /\ collected' = <<>>
                /\ total_fetched' = 0
                /\ next_page_token' = 0
                /\ search_data' = None
                /\ UNCHANGED <<results, exc>>
             \/ /\ out = "not_object"
                /\ Raise("AttributeError")
                /\ UNCHANGED <<idx, results, jql, srv, paging>>
             \/ /\ out \in FailOutcomes \cup {"falsy"}
                /\ NextFilter
                /\ UNCHANGED <<results, exc, jql, srv, paging>>
    /\ UNCHANGED <<config, process, now, flow, store, entry, call, ep, probe>>

\* data.get('isLast', True).
IsLast(flag) == IF flag = "absent" THEN TRUE ELSE flag = "true"

\* The test for the last page without the test for an empty page.
LastPageByFlag(flag, cnt) == IsLast(flag)

\* jira_view_filter.py 206: data.get('isLast', True) or not issues.
LastPage(flag, cnt) == IsLast(flag) \/ cnt = 0

\* jira_view_filter.py 176-215: one iteration of the while loop of
\* search_issues.  A failed request breaks out of the loop with what was
\* collected so far; a page is appended issue by issue up to max_results.
SearchPage ==
    /\ pc = "search" /\ variant = "batch"
    /\ total_fetched < max_results
    /\ LET f == filters[idx]
           remaining == max_results - total_fetched
           size == Min(PageCap, remaining)
       IN
       \E out \in Outcomes :
          /\ reqs' = Append(reqs,
                 Req(f, BatchEndpoint, 1, jql, size, next_page_token, out))
          /\ \/ /\ out = "ok"
                /\ \E cnt \in 0..(srv.held - next_page_token) :
                   \E flag \in {"true", "false", "absent"} :
                   \E tok \in {0, next_page_token + cnt} :
                      LET page  == Page(srv.pattern, next_page_token, cnt)
                          taken == SubSeq(page, 1, Min(cnt, remaining))
                          last  == next_page_token + cnt = srv.held
                      IN
                      /\ srv' = [srv EXCEPT !.honest =
                            /\ @
                            /\ HonestCount(cnt, size, next_page_token, srv.held)
                            /\ flag = (IF last THEN "true" ELSE "false")
                            /\ tok = (IF last THEN 0 ELSE next_page_token + cnt)]
                      /\ IF AnySimplifyRaises(taken)
                         THEN /\ Raise("AttributeError")
                              /\ UNCHANGED paging
                         ELSE /\ collected' = collected \o SimplifyAll(taken)
                              /\ total_fetched' = total_fetched + Len(taken)
                              /\ next_page_token' =
                                    IF LastPage(flag, cnt)
                                    THEN next_page_token ELSE tok
                              /\ search_data' =
                                    Some([issues |-> cnt, isLast |-> flag,
                                          nextPageToken |-> tok])
                              /\ pc' = IF \/ LastPage(flag, cnt)
                                          \/ tok = 0
                                          \/ total_fetched + Len(taken) >= max_results
                                       THEN "assemble" ELSE "search"
                              /\ exc' = exc
             \/ /\ out \in NonObjects
                /\ Raise("AttributeError")
                /\ UNCHANGED <<paging, srv>>
             \/ /\ out \in FailOutcomes
                /\ pc' = "assemble"
                /\ UNCHANGED <<paging, srv, exc>>
    /\ UNCHANGED <<config, process, now, flow, store, entry, call, idx, jql, ep, results, probe>>

\* jira_view_filter.py 272-300: most recent ticket and the result entry.
BatchAssemble ==
    /\ pc = "assemble" /\ variant = "batch"
    /\ IF SortRaises(collected)
       THEN Raise("TypeError") /\ UNCHANGED <<idx, results>>
       ELSE /\ results' = Append(results,
                   SuccessResult(filters[idx], ServerName(filters[idx]),
                                 jql, collected))
            /\ NextFilter
            /\ exc' = exc
    /\ UNCHANGED <<config, process, now, flow, store, entry, call, paging, jql, ep, probe, reqs, srv>>

\* ------------------------------- config flow: _test_filter_count
\* config_flow.py 736-743: except RequestException returns the failure dict.
ProbeFailure(f, e) ==
    [success |-> FALSE, filter_name |-> "Filter " \o f, jql |-> "",
     total_count |-> 0, sample_issues |-> <<>>, error |-> e]

\* config_flow.py 720-734: the success dict with a sample of five issues.
SampleSize == 5
ProbeSuccess(name, q, page) ==
    [success |-> TRUE, filter_name |-> name, jql |-> q,
     total_count |-> Len(page),
     sample_issues |-> [i \in 1..Min(SampleSize, Len(page)) |-> page[i].key],
     error |-> NULL]

ProbeReturn(info) ==
    /\ probe' = Some(info)
    /\ idx' = idx + 1
    /\ pc' = "done"
    /\ exc' = exc

\* config_flow.py 655-674: the session, GET filter/{id}, jql and name.
ProbeGetFilter ==
    /\ pc = "start" /\ variant = "probe"
    /\ LET f == filters[idx] IN
       \E out \in Outcomes :
          /\ reqs' = <<Req(f, FilterEndpoint, 0, "", 0, 0, out)>>
          /\ \/ /\ out = "ok"
                /\ \E q \in Jqls, held \in 0..MaxIssues, pat \in Patterns :
                      /\ jql' = q
                      /\ srv' = [held |-> held, pattern |-> pat,
                                 honest |-> TRUE]
                /\ ep' = 1
                /\ pc' = "search"
                /\ UNCHANGED <<idx, probe, exc>>
             \/ /\ out \in NonObjects
                /\ Raise("AttributeError")
                /\ UNCHANGED <<idx, probe, jql, ep, srv>>
             \/ /\ out \in FailOutcomes
                /\ ProbeReturn(ProbeFailure(f, ExcOf(out)))
                /\ UNCHANGED <<jql, ep, srv>>
    /\ UNCHANGED <<config, process, now, flow, store, entry, call, paging, results>>

\* One attempt on the search endpoint of rank n (config_flow.py 683-734).
\* issue.get("fields", {}).get("summary", "") raises AttributeError for a
\* sampled issue whose fields is None.
ProbeSearchAttempt(n) ==
    /\ pc = "search" /\ variant = "probe" /\ ep = n
    /\ LET f == filters[idx] IN
       \E out \in Outcomes :
          /\ reqs' = Append(reqs,
                 Req(f, ProbeEndpoint(n), n, jql, max_results, 0, out))
          /\ \/ /\ out = "ok"
                /\ \E cnt \in 0..srv.held :
                      LET page == Page(srv.pattern, 0, cnt) IN
                      /\ srv' = [srv EXCEPT !.honest =
                             @ /\ HonestCount(cnt, max_results, 0, srv.held)]
                      /\ IF AnySimplifyRaises(SubSeq(page, 1, Min(SampleSize, cnt)))
                         THEN Raise("AttributeError") /\ UNCHANGED <<idx, probe>>
                         ELSE ProbeReturn(ProbeSuccess(ServerName(f), jql, page))
                /\ UNCHANGED ep
             \/ /\ out \in NonObjects
                /\ Raise("AttributeError")
                /\ UNCHANGED <<idx, probe, ep, srv>>
             \/ /\ out \in FailOutcomes /\ FallsBack(n, out)
                /\ ep' = n + 1
                /\ UNCHANGED <<pc, idx, probe, exc, srv>>
             \/ /\ out \in FailOutcomes /\ ~FallsBack(n, out)
                /\ ProbeReturn(ProbeFailure(f, ExcOf(out)))
                /\ UNCHANGED <<ep, srv>>
    /\ UNCHANGED <<config, process, now, flow, store, entry, call, paging, jql, results>>

ProbeSearchJql  == ProbeSearchAttempt(1)
ProbeSearchPost == ProbeSearchAttempt(2)
ProbeSearchGet  == ProbeSearchAttempt(3)

Next ==
    \/ HostBegin
    \/ HostGetFilter
    \/ HostSearchGet
    \/ HostSearchPost
    \/ HostSearchJql
    \/ BatchBegin
    \/ BatchGetFilter
    \/ SearchPage
    \/ BatchAssemble
    \/ ProbeGetFilter
    \/ ProbeSearchJql
    \/ ProbeSearchPost
    \/ ProbeSearchGet

Spec == Init /\ [][Next]_vars

\* ------------------------------------------------------- batch: main
\* The batch process: main of jira_view_filter.py builds the client from
\* the config file, splits the --filters argument, runs the filters and
\* prints one JSON document.  (--pretty, the table for a terminal, is not
\* given.)
DefaultMaxResults == 100    \* _getint_key('max_results', default=100)

\* The options of the config file as configparser reads them: a function on
\* the option names the file has, to their text.  A file is missing, or it
\* does not parse (configparser raises), or it has options.
Absent == "<absent>"
\* A file with every value in order, and what a value can be instead.
ValidTexts ==
    [base_url |-> "https://jira.example.org/", username |-> "ada@example.org",
     email |-> Absent, api_token |-> "s3cr3t", verify_ssl |-> "false",
     max_results |-> ToString(MaxN)]
OtherTexts ==
    [base_url   |-> {Absent, " ", "https://your-domain.atlassian.net"},
     username   |-> {Absent, "", "your_email@example.org"},
     email      |-> {"ada@example.org"},
     api_token  |-> {Absent, "", "your_api_token"},
     verify_ssl |-> {Absent, "maybe"},
     max_results |-> {Absent, "abc"}]
\* The valid file, the files that differ from it in one option, and the
\* file that names the user by email alone.
OptionTexts ==
    {ValidTexts,
     [ValidTexts EXCEPT !.username = Absent, !.email = "ada@example.org"]}
    \cup UNION {{[ValidTexts EXCEPT ![k] = text] : text \in OtherTexts[k]} :
                  k \in DOMAIN ValidTexts}
Options(texts) ==
    [k \in {o \in DOMAIN texts : texts[o] # Absent} |-> texts[k]]
ConfigFiles ==
    {[exists |-> FALSE, parses |-> TRUE, options |-> <<>>],
     [exists |-> TRUE, parses |-> FALSE, options |-> <<>>]}
    \cup {[exists |-> TRUE, parses |-> TRUE, options |-> Options(texts)] :
             texts \in OptionTexts}

\* The command line: the --filters text split at its commas, and
\* --max-results (None when not given, Some(n) otherwise).
ArgFilters ==
    {<<"">>} \cup (FilterLists \ {<<>>})
             \cup {Append(l, " ") : l \in FilterLists \ {<<>>}}
ArgMaxResults == {None, Some(PageCap + 1)} \cup {Some(n) : n \in -1..MaxN}
Argvs == [filters : ArgFilters, max_results : ArgMaxResults]

\* str.strip() of the texts above.
Strip(text) == IF text = " " THEN "" ELSE text
\* value.startswith('your_') or 'your-' in value or 'your ' in value
LooksPlaceholder(value) ==
    value \in {"https://your-domain.atlassian.net", "your_email@example.org",
               "your_api_token"}

\* _require_key (jira_view_filter.py 96-111): the first of search_keys the
\* file has decides; the process exits when there is none, when its value is
\* empty and when it looks like a placeholder.
RECURSIVE FirstOption(_, _)
FirstOption(options, search_keys) ==
    IF search_keys = <<>> THEN NULL
    ELSE IF Head(search_keys) \in DOMAIN options THEN Head(search_keys)
    ELSE FirstOption(options, Tail(search_keys))
RequireKeyExits(options, search_keys, allow_placeholder) ==
    LET k == FirstOption(options, search_keys) IN
    IF k = NULL THEN TRUE
    ELSE LET value == Strip(options[k]) IN
         \/ value = ""
         \/ ~allow_placeholder /\ LooksPlaceholder(value)

\* configparser's getint and getboolean on the texts above.
IsInt(text) == \E n \in 0..MaxN : ToString(n) = text
ParseInt(text) == CHOOSE n \in 0..MaxN : ToString(n) = text
BooleanStates == {"1", "yes", "true", "on", "0", "no", "false", "off"}

\* _getint_key and _getboolean_key (113-131): a text that is no integer or
\* no boolean is replaced by the default, with a warning.
getint_key(options, key, default) ==
    IF key \in DOMAIN options /\ IsInt(options[key])
    THEN ParseInt(options[key]) ELSE default
getboolean_key(options, key, default) ==
    IF key \in DOMAIN options /\ options[key] \in BooleanStates
    THEN options[key] \in {"1", "yes", "true", "on"} ELSE default

\* JiraClient.__init__ (69-94): sys.exit(1), an exception of configparser,
\* or the client.
JiraClient(config_file) ==
    IF ~config_file.exists THEN [kind |-> "exit"]
    ELSE IF ~config_file.parses THEN [kind |-> "raise"]
    ELSE LET options == config_file.options IN
         IF \/ RequireKeyExits(options, <<"base_url">>, FALSE)
            \/ RequireKeyExits(options, <<"username", "email">>, FALSE)
            \/ RequireKeyExits(options, <<"api_token">>, FALSE)
         THEN [kind |-> "exit"]
         ELSE [kind |-> "client",
               verify_ssl |-> getboolean_key(options, "verify_ssl", TRUE),
               default_max_results |->
                  getint_key(options, "max_results", DefaultMaxResults)]

\* [fid.strip() for fid in args.filters.split(',') if fid.strip()]
RECURSIVE FilterIds(_)
FilterIds(parts) ==
    IF parts = <<>> THEN <<>>
    ELSE IF Strip(Head(parts)) = "" THEN FilterIds(Tail(parts))
    ELSE <<Strip(Head(parts))>> \o FilterIds(Tail(parts))

\* sys.exit(status)
Exit(status) ==
    /\ pc' = "exited"
    /\ exit_code' = Some(status)

\* main, 464-471 (with run_filters 269): the client, the filter ids, the
\* limit of every filter; then run_filters begins.
MainStart(config_file, args) ==
    /\ pc = "boot" /\ variant = "batch"
    /\ LET client     == JiraClient(config_file)
           filter_ids == FilterIds(args.filters)
       IN
       IF client.kind = "exit"
       THEN Exit(1) /\ UNCHANGED <<filters, max_results, exc>>
       ELSE IF client.kind = "raise"
       THEN /\ Raise("ParsingError")
            /\ UNCHANGED <<filters, max_results, exit_code>>
       ELSE IF filter_ids = <<>>
       THEN Exit(1) /\ UNCHANGED <<filters, max_results, exc>>
       ELSE /\ filters' = filter_ids
            /\ max_results' = IF args.max_results # None
                              THEN args.max_results[1]
                              ELSE client.default_max_results
            /\ pc' = "start"
            /\ UNCHANGED <<exc, exit_code>>
    /\ UNCHANGED <<variant, stdout, now, flow, store, entry, call, paging, idx, jql, ep,
                   results, probe, reqs, srv>>

Main ==
    /\ pc = "boot"
    /\ \E config_file \in ConfigFiles, args \in Argvs :
          MainStart(config_file, args)

\* A result as json.dumps writes it (run_filters 281-298).
BatchObject(r) ==
    [filter_id |-> r.filter_id, filter_name |-> r.filter_name,
     jql |-> r.jql, total_returned |-> r.total_count,
     most_recent_ticket |-> r.most_recent_ticket, issues |-> r.issues]
\* The value of the grouped mapping for a result (main 477-483).
GroupedObject(r) ==
    [filter_name |-> r.filter_name, jql |-> r.jql,
     total_returned |-> r.total_count,
     most_recent_ticket |-> r.most_recent_ticket, issues |-> r.issues]

\* main 475-489: the document is a mapping keyed by filter id when results
\* has more than one element (a later result replaces an earlier one of the
\* same id), and the array of results otherwise.
JsonDocument(rs) ==
    IF Len(rs) > 1
    THEN [json |-> "object",
          members |->
             [f \in {rs[i].filter_id : i \in 1..Len(rs)} |->
                 LET last == CHOOSE i \in 1..Len(rs) :
                                /\ rs[i].filter_id = f
                                /\ \A j \in (i + 1)..Len(rs) :
                                      rs[j].filter_id # f
                 IN GroupedObject(rs[last])]]
    ELSE [json |-> "array",
          items |-> [i \in 1..Len(rs) |-> BatchObject(rs[i])]]

\* main 471-489: run_filters has returned; the document is printed and main
\* returns.
MainOutput ==
    /\ pc = "done" /\ variant = "batch" /\ exit_code = None
    /\ stdout' = Append(stdout, JsonDocument(results))
    /\ pc' = "exited"
    /\ exit_code' = Some(0)
    /\ UNCHANGED <<config, now, flow, store, entry, call, paging, idx, jql, ep, results,
                   probe, exc, reqs, srv>>

\* The error object of main's handler (495-499).
ErrorOutput(e) ==
    [json |-> "object",
     members |-> [error |-> e, source |-> "error", timestamp |-> now]]

\* An exception that main does not handle: the traceback goes to standard
\* error and the interpreter exits with status 1.
MainExceptUncaught ==
    /\ pc = "failed" /\ variant = "batch" /\ exit_code = None
    /\ Exit(1)
    /\ UNCHANGED <<config, now, flow, store, entry, call, paging, idx, jql, ep, results,
                   probe, exc, reqs, srv, stdout>>

\* main 493-501: `except Exception` prints the error object and exits.
MainExcept ==
    /\ pc = "failed" /\ variant = "batch" /\ exit_code = None
    /\ stdout' = Append(stdout, ErrorOutput(exc))
    /\ Exit(1)
    /\ UNCHANGED <<config, now, flow, store, entry, call, paging, idx, jql, ep, results,
                   probe, exc, reqs, srv>>

MainInit ==
    /\ NoEntry /\ NoCall /\ NoProcess /\ NoFlow /\ NoStore
    /\ now \in Clocks
    /\ variant = "batch"
    /\ filters = <<>>
    /\ max_results = 0
    /\ pc = "boot"
    /\ idx = 1
    /\ jql = ""
    /\ ep = 1
    /\ collected = <<>>
    /\ total_fetched = 0
    /\ next_page_token = 0
    /\ search_data = None
    /\ results = <<>>
    /\ probe = None
    /\ exc = NULL
    /\ reqs = <<>>
    /\ srv = [held |-> 0, pattern |-> "dated", honest |-> TRUE]

MainNext ==
    \/ Main
    \/ BatchBegin
    \/ BatchGetFilter
    \/ SearchPage
    \/ BatchAssemble
    \/ MainOutput
    \/ MainExcept

MainSpec == MainInit /\ [][MainNext]_vars

\* ------------------------------------- the config entry and its sensors
\* The long-lived mode: __init__.async_setup_entry, the sensor platform's
\* async_setup_entry, the coordinator's refresh cycles, the refresh service
\* and the sensors that read coordinator.data.  One iteration of the for
\* loop of _fetch_jira_data is one step here (its requests are the actions
\* HostGetFilter and HostSearchAttempt above); pc is idle between cycles.
ServiceName   == "refresh_jira"
NoCoordinator == "No coordinator available for Jira"
Refreshed     == "Manually refreshed Jira Filters data for Jira"

\* A refresh begins: _async_update_data hands _fetch_jira_data to the
\* executor, which starts with an empty results dict (sensor.py 93-117).
StartCycle ==
    /\ results' = <<>>
    /\ idx' = 1
    /\ pc' = IF filters = <<>> THEN "done" ELSE "resolve"
    /\ inflight' = inflight + 1
    /\ unsub_refresh' = FALSE

\* __init__.py 28-40 and sensor.py 51-55: the entry's slot in hass.data,
\* with no coordinator in it, then the platform creates the coordinator and
\* awaits its first refresh.
SetupEntry ==
    /\ phase = "unloaded"
    /\ phase' = "setup"
    /\ hass_data' = Some([data |-> "entry.data", coordinator |-> NULL])
    /\ StartCycle
    /\ UNCHANGED <<config, process, now, flow, store, call, paging, jql, ep, probe, exc, reqs, srv,
                   services, data, last_update_success, log>>

\* sensor.py 117-253: one filter of the cycle.  Its try block stores the
\* success entry, a RequestException stores the error entry, any other
\* exception leaves _fetch_jira_data.
FetchOutcome ==
    /\ pc = "resolve" /\ variant = "host" /\ phase # "unloaded"
    /\ LET f == filters[idx] IN
       \/ \E cnt \in 0..MaxIssues :
             /\ results' = DictSet(results,
                    SuccessResult(f, ConfigName(f), "project = A",
                                  SimplifyAll(Page("dated", 0, cnt))))
             /\ NextFilter
             /\ exc' = exc
       \/ \E out \in FailOutcomes : HostCatch(f, ExcOf(out))
       \/ Raise("AttributeError") /\ UNCHANGED <<idx, results>>
    /\ UNCHANGED <<config, process, now, flow, store, call, paging, jql, ep, probe, reqs, srv,
                   phase, hass_data, services, last_update_success,
                   unsub_refresh, inflight, log>>

\* The same step with the entries written to the dict the sensors read.
FetchFilterShared == FetchOutcome /\ data' = Some(results')

FetchFilter == FetchOutcome /\ data' = data

\* sensor.py 93-98: _async_update_data returns the dict; the coordinator
\* takes it as its data.  After the first refresh the platform goes on to
\* create the sensors (sensor.py 57-68).
UpdateSucceeded ==
    /\ pc = "done" /\ variant = "host" /\ phase # "unloaded"
    /\ data' = Some(results)
    /\ last_update_success' = TRUE
    /\ inflight' = inflight - 1
    /\ pc' = IF phase = "setup" THEN "entities" ELSE "idle"
    /\ unsub_refresh' = (phase = "loaded")
    /\ UNCHANGED <<config, process, now, flow, store, call, paging, jql, ep, probe, exc, reqs, srv,
                   idx, results, phase, hass_data, services, log>>

\* sensor.py 99-100: any exception becomes UpdateFailed; the coordinator
\* keeps its data.  A failed first refresh leaves the platform's setup with
\* an exception before any sensor is created (sensor.py 55, 69-71).  What
\* the entry's setup sees of it is up to the forward it awaits
\* (__init__.py 37): a forward that raises the platform's exception fails
\* the entry's setup (__init__.py 65-67); a forward that keeps it to itself
\* returns, and the setup goes on to register the refresh service and
\* returns True (__init__.py 42-64): the entry is loaded without sensors,
\* no timer is armed and nothing is published.
UpdateFailed ==
    /\ pc = "failed" /\ variant = "host" /\ phase # "unloaded"
    /\ last_update_success' = FALSE
    /\ inflight' = inflight - 1
    /\ exc' = NULL
    /\ pc' = "idle"
    /\ IF phase = "setup"
       THEN /\ \E forward_raises \in BOOLEAN :
                  IF forward_raises
                  THEN /\ phase' = "setup_failed"
                       /\ UNCHANGED services
                  ELSE /\ phase' = "loaded"
                       /\ services' = services \cup {ServiceName}
            /\ unsub_refresh' = FALSE
       ELSE /\ unsub_refresh' = (phase = "loaded")
            /\ UNCHANGED <<phase, services>>
    /\ UNCHANGED <<config, process, now, flow, store, call, paging, jql, ep, probe, reqs, srv,
                   idx, results, hass_data, data, log>>

\* sensor.py 57-68 and __init__.py 42-64: one sensor per configured filter,
\* then the refresh service is registered and the entry is set up.  The
\* sensors are the coordinator's listeners: with no configured filter no
\* sensor is added, nothing listens and no timer is armed.
FinishSetup ==
    /\ pc = "entities" /\ phase = "setup"
    /\ services' = services \cup {ServiceName}
    /\ phase' = "loaded"
    /\ pc' = "idle"
    /\ unsub_refresh' = (filters # <<>>)
    /\ UNCHANGED <<config, process, now, flow, store, call, paging, jql, ep, probe, exc, reqs, srv,
                   idx, results, hass_data, data, last_update_success,
                   inflight, log>>

\* sensor.py 86-91 hands update_interval to Home Assistant's
\* DataUpdateCoordinator, which is not part of the repository.  The timer
\* is taken as the specification describes long-lived scheduling: it is
\* armed when a cycle has ended, fires once, and no cycle starts while
\* another is in flight.  Nothing in the repository's own code decides
\* whether cycles overlap.
Tick ==
    /\ phase = "loaded" /\ unsub_refresh /\ pc = "idle"
    /\ StartCycle
    /\ UNCHANGED <<config, process, now, flow, store, call, paging, jql, ep, probe, exc, reqs, srv,
                   phase, hass_data, services, data, last_update_success,
                   log>>

\* __init__.py 46-53: the handler of the refresh service looks the
\* coordinator up in hass.data and asks it for a refresh if there is one.
handle_refresh_service ==
    /\ ServiceName \in services
    /\ LET coordinator == hass_data[1].coordinator IN
       IF coordinator # NULL
       THEN /\ log' = Refreshed
            /\ IF pc = "idle"
               THEN StartCycle
               ELSE UNCHANGED <<results, idx, pc, inflight, unsub_refresh>>
       ELSE /\ log' = NoCoordinator
            /\ UNCHANGED <<results, idx, pc, inflight, unsub_refresh>>
    /\ UNCHANGED <<config, process, now, flow, store, call, paging, jql, ep, probe, exc, reqs, srv,
                   phase, hass_data, services, data, last_update_success>>

\* JiraFilterSensor.native_value of the sensor of filter f (sensor.py
\* 340-344); an empty dict is falsy.
native_value_unknown(f) ==
    IF data = None \/ data[1] = <<>>
          \/ ~ \E i \in 1..Len(data[1]) : data[1][i].filter_id = f
    THEN -1
    ELSE LET i == CHOOSE i \in 1..Len(data[1]) : data[1][i].filter_id = f
         IN data[1][i].total_count

native_value(f) ==
    IF data = None \/ data[1] = <<>>
          \/ ~ \E i \in 1..Len(data[1]) : data[1][i].filter_id = f
    THEN 0
    ELSE LET i == CHOOSE i \in 1..Len(data[1]) : data[1][i].filter_id = f
         IN data[1][i].total_count

\* The entry of filter f in the published map d (d[f] of a dict that has
\* the key).
Published(d, f) ==
    d[1][CHOOSE i \in 1..Len(d[1]) : d[1][i].filter_id = f]
HasEntry(d, f) ==
    d # None /\ \E i \in 1..Len(d[1]) : d[1][i].filter_id = f

\* sensor.py 367-378: what the attribute bundle keeps of one issue.
AttrIssue(issue) ==
    [key |-> issue.key,
     summary |-> issue.summary,
     status |-> issue.status.name,
     priority |-> issue.priority,
     assignee |-> IF issue.assignee # None
                  THEN issue.assignee[1].displayName ELSE NULL,
     updated |-> issue.updated,
     created |-> issue.created]

\* The attribute bundle with every issue of the filter in it.
extra_state_attributes_all(f) ==
    IF ~HasEntry(data, f) THEN <<>>
    ELSE LET filter_data == Published(data, f)
             issues      == filter_data.issues
             most_recent == filter_data.most_recent_ticket
         IN
         [k \in {"filter_id", "filter_name", "jql", "total_count"}
                   \cup (IF issues # <<>> THEN {"issues"} ELSE {})
                   \cup (IF most_recent # None
                         THEN {"most_recent_ticket"} ELSE {}) |->
             IF k = "issues"
             THEN [i \in 1..Len(issues) |-> AttrIssue(issues[i])]
             ELSE IF k = "most_recent_ticket" THEN most_recent[1]
             ELSE filter_data[k]]

\* JiraFilterSensor.extra_state_attributes of the sensor of filter f
\* (sensor.py 346-390): {} when nothing is published for the filter, else
\* the entry's scalars, the first ten issues when there are issues, and the
\* most recent ticket when there is one.  (last_updated, the time the
\* entry was stored, is not part of the model's entries.)
extra_state_attributes(f) ==
    IF ~HasEntry(data, f) THEN <<>>
    ELSE LET filter_data == Published(data, f)
             issues      == filter_data.issues
             most_recent == filter_data.most_recent_ticket
             limited_issues == SubSeq(issues, 1, Min(AttrLimit, Len(issues)))
         IN
         [k \in {"filter_id", "filter_name", "jql", "total_count"}
                   \cup (IF issues # <<>> THEN {"issues"} ELSE {})
                   \cup (IF most_recent # None
                         THEN {"most_recent_ticket"} ELSE {}) |->
             IF k = "issues"
             THEN [i \in 1..Len(limited_issues) |->
                      AttrIssue(limited_issues[i])]
             ELSE IF k = "most_recent_ticket" THEN most_recent[1]
             ELSE filter_data[k]]

EntryInit ==
    /\ NoEntry /\ NoCall /\ NoProcess /\ NoFlow /\ NoStore
    /\ now \in Clocks
    /\ variant = "host"
    /\ filters \in FilterLists
    /\ max_results = MaxN
    /\ pc = "idle"
    /\ idx = 1
    /\ jql = ""
    /\ ep = 1
    /\ collected = <<>>
    /\ total_fetched = 0
    /\ next_page_token = 0
    /\ search_data = None
    /\ results = <<>>
    /\ probe = None
    /\ exc = NULL
    /\ reqs = <<>>
    /\ srv = [held |-> 0, pattern |-> "dated", honest |-> TRUE]

EntryNext ==
    \/ SetupEntry
    \/ FetchFilter
    \/ UpdateSucceeded
    \/ UpdateFailed
    \/ FinishSetup
    \/ Tick
    \/ handle_refresh_service

EntrySpec == EntryInit /\ [][EntryNext]_vars

\* ------------------------------------------ functions taken by themselves
\* The pure functions of the engine are applied to arguments drawn from
\* bounded sets: pc is "call" before and "returned" after the application.
engine == <<config, idx, jql, ep, paging, results, probe, reqs, srv>>
NoCycle ==
    /\ variant = "none"
    /\ filters = <<>>
    /\ max_results = 0
    /\ idx = 1
    /\ jql = ""
    /\ ep = 1
    /\ collected = <<>>
    /\ total_fetched = 0
    /\ next_page_token = 0
    /\ search_data = None
    /\ results = <<>>
    /\ probe = None
    /\ exc = NULL
    /\ reqs = <<>>
    /\ srv = [held |-> 0, pattern |-> "dated", honest |-> TRUE]

Return(value) ==
    /\ pc = "call"
    /\ pc' = "returned"
    /\ ret' = value
    /\ UNCHANGED <<engine, exc, now, flow, store, entry, process, arg>>
Throw(e) ==
    /\ pc = "call"
    /\ pc' = "raised"
    /\ exc' = e
    /\ UNCHANGED <<engine, ret, now, flow, store, entry, process, arg>>

\* Raw issues as the search response carries them.  Every optional part is
\* missing, null or an object; an assignee may also be the empty object.
Slots == {"missing", "null", "object"}
Shapes ==
    [status : Slots, statusCategory : Slots, assignee : Slots \cup {"empty"},
     priority : Slots, issuetype : Slots, parent : Slots,
     parent_fields : Slots, labels : Slots]
Slot(tag, object) == IF tag = "null" THEN None ELSE Some(object)
\* The keys among ks that the shape does not leave out.
Present(shape, ks) == {k \in ks : shape[k] # "missing"}
StatusObject(shape) ==
    [k \in {"name"} \cup Present(shape, {"statusCategory"}) |->
        IF k = "name" THEN "Open"
        ELSE Slot(shape.statusCategory, [name |-> "To Do"])]
AssigneeObject(shape) ==
    IF shape.assignee = "empty" THEN <<>>
    ELSE [accountId |-> "a1", displayName |-> "Ada",
          emailAddress |-> "ada@example.org"]
ParentObject(shape) ==
    [k \in {"key", "id"} \cup
            (IF shape.parent_fields # "missing" THEN {"fields"} ELSE {}) |->
        IF k = "key" THEN "JF-1"
        ELSE IF k = "id" THEN "10001"
        ELSE Slot(shape.parent_fields, [summary |-> "Epic"])]
FieldsObject(shape) ==
    [k \in {"summary", "created", "updated"} \cup
            Present(shape, {"status", "assignee", "priority", "issuetype",
                            "parent", "labels"}) |->
        IF k = "summary" THEN "Fix it"
        ELSE IF k = "created" THEN Jan
        ELSE IF k = "updated" THEN Mar
        ELSE IF k = "status" THEN Slot(shape.status, StatusObject(shape))
        ELSE IF k = "assignee"
        THEN Slot(shape.assignee, AssigneeObject(shape))
        ELSE IF k = "priority" THEN Slot(shape.priority, [name |-> "High"])
        ELSE IF k = "issuetype" THEN Slot(shape.issuetype, [name |-> "Bug"])
        ELSE IF k = "parent" THEN Slot(shape.parent, ParentObject(shape))
        ELSE Slot(shape.labels, <<"ui">>)]
RawIssues ==
    {[id |-> "10002", key |-> "JF-2"],
     [id |-> "10002", key |-> "JF-2", fields |-> None]}
    \cup {[id |-> "10002", key |-> "JF-2",
           fields |-> Some(FieldsObject(shape))] : shape \in Shapes}

\* _simplify_issue(issue)
SimplifyIssue ==
    IF SimplifyRaises(arg) THEN Throw("AttributeError")
    ELSE Return(simplify_issue(arg))

NormalizerInit ==
    /\ NoEntry /\ NoCycle /\ NoProcess /\ NoFlow /\ NoStore
    /\ pc = "call"
    /\ arg \in RawIssues
    /\ now \in Clocks
    /\ ret = <<>>

NormalizerSpec == NormalizerInit /\ [][SimplifyIssue]_vars

\* Sequences of normalized issues, as far as the selection reads them: key
\* (the position in the response) and updated.
IssueSeqs ==
    UNION {[1..n -> Timestamps \cup {NULL}] : n \in 0..MaxIssues}
Issues(stamps) == [i \in 1..Len(stamps) |-> [key |-> i, updated |-> stamps[i]]]

\* The selection of the most recent ticket (sensor.py 221-230,
\* jira_view_filter.py 273-298).
MostRecent ==
    IF SortRaises(arg) THEN Throw("TypeError")
    ELSE Return(MostRecentTicket(arg))

RecencyInit ==
    /\ NoEntry /\ NoCycle /\ NoProcess /\ NoFlow /\ NoStore
    /\ pc = "call"
    /\ arg \in {Issues(stamps) : stamps \in IssueSeqs}
    /\ now \in Clocks
    /\ ret = <<>>

RecencySpec == RecencyInit /\ [][MostRecent]_vars

\* Ages (now minus updated, in seconds) around every multiple of a second,
\* a minute, an hour and a day, one second before the timestamp included.
Ages ==
    {k * unit + d : k \in 0..MaxUnits, unit \in {1, 60, 3600, 86400},
                    d \in {-1, 0, 1, 30}}

\* format_human_time(timestamp_str) with the clock at now.
FormatHumanTime ==
    /\ arg \in Timestamps \cup {BadStamp, NaiveStamp}
    /\ Return(format_human_time(arg, now))

HumanTimeInit ==
    /\ NoEntry /\ NoCycle /\ NoProcess /\ NoFlow /\ NoStore
    /\ pc = "call"
    /\ arg \in Timestamps \cup {BadStamp, NaiveStamp}
    /\ now \in {Seconds(Mar) + age : age \in Ages}
    /\ ret = NULL

HumanTimeSpec == HumanTimeInit /\ [][FormatHumanTime]_vars

\* The step of the config flow that adds a filter, taken by itself.  The
\* user gives a filter id and may give a name; the server answers the
\* lookup with a definition that carries its name of the day (or, against
\* the API's schema, no name), with something that is no object, or not at
\* all.
GivenNames == {NULL, "", "Mine"}
FilterInputs ==
    [filter_id : {FilterId(n) : n \in 1..MaxFilters}, filter_name : GivenNames]
LookupResponses ==
    {[out |-> out, name |-> None] :
        out \in {"ok", "not_object"} \cup FailOutcomes}
    \cup {[out |-> "ok", name |-> Some(prefix \o " filter")] :
             prefix \in {"Old", "New"}}

\* _validate_filter (config_flow.py 626-649): (is_valid, filter_name).
validate_filter(filter_id, response) ==
    IF response.out \in FailOutcomes THEN <<FALSE, "">>
    ELSE <<TRUE, IF response.name # None THEN response.name[1]
                 ELSE "Filter " \o filter_id>>

\* A filter step that appends what the user typed whatever the server said.
async_step_filter_unchecked(user_input, response) ==
    [step |-> "add_more", errors |-> NULL,
     appended |-> Some([filter_id |-> user_input.filter_id,
                        filter_name |-> user_input.filter_name])]

\* ConfigFlow.async_step_filter (config_flow.py 167-211): the form again
\* with an error, or the filter appended to self._filters and the add_more
\* step.  filter_data.get of a body that is no object raises, which the
\* step's `except Exception` turns into the error "unknown".
async_step_filter(user_input, response) ==
    IF response.out \in NonObjects
    THEN [step |-> "filter", errors |-> "unknown", appended |-> None]
    ELSE LET valid == validate_filter(user_input.filter_id, response) IN
         IF ~valid[1]
         THEN [step |-> "filter", errors |-> "invalid_filter",
               appended |-> None]
         ELSE [step |-> "add_more", errors |-> NULL,
               appended |->
                  Some([filter_id |-> user_input.filter_id,
                        filter_name |->
                           IF user_input.filter_name \notin {NULL, ""}
                           THEN user_input.filter_name ELSE valid[2]])]

AsyncStepFilter ==
    /\ arg.user_input \in FilterInputs
    /\ Return(async_step_filter(arg.user_input, arg.response))

FilterStepInit ==
    /\ NoEntry /\ NoCycle /\ NoProcess /\ NoFlow /\ NoStore
    /\ pc = "call"
    /\ arg \in [user_input : FilterInputs, response : LookupResponses]
    /\ now \in Clocks
    /\ ret = <<>>

FilterStepSpec == FilterStepInit /\ [][AsyncStepFilter]_vars

\* ------------------------------------------ the entries of the domain
\* Setup and unload of config entries (__init__.py).  Both are coroutines
\* that await the sensor platform, so the steps of different entries
\* interleave at the await; Home Assistant runs the setup and the unload of
\* one entry one after the other.  An entry's data has a connection name
\* or, when it was stored without one, none.
EntryIds == {"e" \o ToString(n) : n \in 1..MaxEntries}
EntryDatas ==
    {[base_url |-> "https://work.atlassian.net/"]}
    \cup {[base_url |-> "https://work.atlassian.net/", name |-> n] :
             n \in {"Jira", "Work", "work"}}

\* connection_name.lower().replace(' ', '_') of the names above.
LowerUnderscore(connection_name) ==
    IF connection_name \in {"Work", "work"} THEN "work" ELSE "jira"

\* entry.data.get("name", "Jira") and f"refresh_{...}" (__init__.py 43-44,
\* 81-82), of the entry's data d.
service_name(d) ==
    "refresh_" \o LowerUnderscore(IF "name" \in DOMAIN d THEN d.name
                                  ELSE "Jira")

\* d.pop(k)
Pop(d, k) == [x \in DOMAIN d \ {k} |-> d[x]]
\* d[k] = v
SetItem(d, k, v) == [x \in DOMAIN d \cup {k} |-> IF x = k THEN v ELSE d[x]]

\* {"data": entry.data, "coordinator": None} (__init__.py 29-32).
EntrySlot(d) == [data |-> d, coordinator |-> NULL]

\* What setup and unload leave alone, in a flow's step or outside.
HassFrame ==
    UNCHANGED <<engine, pc, exc, now, process, call, phase, hass_data, data,
                last_update_success, unsub_refresh, inflight, log>>
\* What the steps of the entries leave alone.
StoreFrame == HassFrame /\ UNCHANGED <<flow, entry_data>>

\* async_setup_entry up to its await (__init__.py 27-37): the entry's slot
\* in hass.data[DOMAIN], then the sensor platform is asked to set up.
SetupBegin(e) ==
    /\ e \in DOMAIN entry_pc
    /\ entry_pc[e] \in {"not_loaded", "setup_error"}
    /\ domain_data' = SetItem(domain_data, e, EntrySlot(entry_data[e]))
    /\ entry_pc' = [entry_pc EXCEPT ![e] = "setup"]
    /\ UNCHANGED services
    /\ StoreFrame

\* async_setup_entry after its await (__init__.py 37-66): the service is
\* registered under the connection's name; an exception of the platform is
\* caught and the setup returns False.
SetupFinish(e) ==
    /\ e \in DOMAIN entry_pc
    /\ entry_pc[e] = "setup"
    /\ \E forwarded \in BOOLEAN :
          IF forwarded
          THEN /\ services' = services \cup {service_name(entry_data[e])}
               /\ entry_pc' = [entry_pc EXCEPT ![e] = "loaded"]
          ELSE /\ entry_pc' = [entry_pc EXCEPT ![e] = "setup_error"]
               /\ UNCHANGED services
    /\ UNCHANGED domain_data
    /\ StoreFrame

\* async_unload_entry up to its await (__init__.py 70-77).
UnloadBegin(e) ==
    /\ entry_pc[e] = "loaded"
    /\ entry_pc' = [entry_pc EXCEPT ![e] = "unloading"]
    /\ UNCHANGED <<services, domain_data>>
    /\ StoreFrame

\* async_unload_entry after its await (__init__.py 79-93): when the
\* platform unloaded, the service of the connection's name is removed and
\* the entry's slot popped.
UnloadFinish(e) ==
    /\ entry_pc[e] = "unloading"
    /\ \E unload_ok \in BOOLEAN :
          IF unload_ok
          THEN /\ services' = services \ {service_name(entry_data[e])}
               /\ domain_data' = Pop(domain_data, e)
               /\ entry_pc' = [entry_pc EXCEPT ![e] = "not_loaded"]
          ELSE /\ entry_pc' = [entry_pc EXCEPT ![e] = "failed_unload"]
               /\ UNCHANGED <<services, domain_data>>
    /\ StoreFrame

StoreInit ==
    /\ NoEntry /\ NoCycle /\ NoCall /\ NoProcess /\ NoFlow
    /\ pc = "idle"
    /\ now \in Clocks
    /\ entry_pc = [e \in EntryIds |-> "not_loaded"]
    /\ entry_data \in [EntryIds -> EntryDatas]
    /\ domain_data = <<>>

StoreNext ==
    \/ \E e \in EntryIds : SetupBegin(e)
    \/ \E e \in EntryIds : SetupFinish(e)
    \/ \E e \in EntryIds : UnloadBegin(e)
    \/ \E e \in EntryIds : UnloadFinish(e)

StoreSpec == StoreInit /\ [][StoreNext]_vars

\* --------------------------------------- the config and options flows
\* The flows of config_flow.py.  Home Assistant hands the user's input to
\* the step whose form was shown last (cur_step); a flow ends when a step
\* returns async_create_entry.  The initial flow creates the entry, which
\* Home Assistant then sets up; every options flow after it starts from the
\* stored entry.  A step of the options flow that stores something updates
\* the entry and then reloads it before it returns: it awaits the entry's
\* unload and its setup (async_unload_entry and async_setup_entry of
\* __init__.py), and is suspended where they await the sensor platform
\* (flow_pc).  One flow is in progress at a time, and no options flow is
\* opened while the entry is being set up.
UserInputs ==
    [base_url : {"https://work.atlassian.net/"}, email : {"ada@example.org"},
     api_token : {"s3cr3t"}, name : {NULL, "Jira"},
     max_results : {DefaultMaxResults}, refresh_minutes : {5}]
\* A body that is no object fails the steps alike whether truthy or falsy.
ConnectionOutcomes == {"ok", "not_object"} \cup FailOutcomes
\* What the user types into a filter form of a flow: one of MaxStored ids,
\* and no name, so that the server's name is stored.  (The step with a
\* name given is FilterStepSpec's.)
FlowFilterInputs ==
    [filter_id : {FilterId(n) : n \in 1..MaxStored}, filter_name : {NULL, ""}]
\* The server's answers to the lookups of a flow: those of the filter step
\* taken by itself, with one name of the day.
FlowLookupResponses ==
    {r \in LookupResponses : r.out # "ok" \/ r.name = Some("Old filter")}

\* The entry of the flows, and its stored data: None or Some(data).
FlowEntry == "e1"
config_entry ==
    IF FlowEntry \in DOMAIN entry_data THEN Some(entry_data[FlowEntry])
    ELSE None

\* _extract_basename_from_url (config_flow.py 24-35): the first label of
\* the host name.
extract_basename_from_url(url) ==
    IF url = "https://work.atlassian.net/" THEN "work" ELSE "Jira"

\* validate_input with _test_jira_connection (config_flow.py 73-122) as the
\* steps read it: a RequestException makes the test return False and
\* validate_input raise CannotConnect; user_data.get of a body that is no
\* object raises past both, into the step's `except Exception`.
validate_input(out) ==
    IF out \in FailOutcomes THEN "cannot_connect"
    ELSE IF out \in NonObjects THEN "unknown"
    ELSE NULL

\* user_input with the default name set (config_flow.py 157-158, 307-308).
WithName(user_input) ==
    [user_input EXCEPT !.name =
        IF @ \in {NULL, ""}
        THEN extract_basename_from_url(user_input.base_url) ELSE @]

\* {**d, "filters": fs} and d["filters"] = fs.
WithFilters(d, fs) ==
    [k \in DOMAIN d \cup {"filters"} |-> IF k = "filters" THEN fs ELSE d[k]]
\* d.update(user_input)
Update(d, user_input) ==
    [k \in DOMAIN d \cup DOMAIN user_input |->
        IF k \in DOMAIN user_input THEN user_input[k] ELSE d[k]]

\* The history of the server's answers to _validate_filter.
Validate(user_input, response) ==
    validated' = IF response.out = "ok"
                 THEN validated \cup {user_input.filter_id} ELSE validated

\* The form of a step is shown and the step waits for the user's input.
AtForm(step) == cur_step = step /\ flow_pc = "form"
\* What a step leaves alone that touches neither the entry nor its setup.
FlowFrame ==
    UNCHANGED <<engine, pc, exc, now, entry, process, call, store, flow_pc>>

\* The user starts the initial flow: ConfigFlow.__init__ and
\* async_step_user(None), which shows the form (config_flow.py 130-142).
ConfigFlowStart ==
    /\ AtForm("none") /\ config_entry = None
    /\ cur_step' = "user"
    /\ errors' = NULL
    /\ self_data' = None
    /\ self_filters' = <<>>
    /\ UNCHANGED <<filter_to_edit, validated, connected>>
    /\ FlowFrame

\* ConfigFlow.async_step_user (config_flow.py 135-165).
AsyncStepUser ==
    /\ AtForm("user")
    /\ \E user_input \in UserInputs, out \in ConnectionOutcomes :
          LET err == validate_input(out) IN
          /\ errors' = err
          /\ IF err = NULL
             THEN /\ self_data' = Some(WithName(user_input))
                  /\ connected' = TRUE
                  /\ cur_step' = "filter"
             ELSE UNCHANGED <<self_data, connected, cur_step>>
    /\ UNCHANGED <<self_filters, filter_to_edit, validated>>
    /\ FlowFrame

\* ConfigFlow.async_step_filter (config_flow.py 167-211) in the flow.
FlowStepFilter ==
    /\ AtForm("filter")
    /\ Len(self_filters) < MaxStored
    /\ \E user_input \in FlowFilterInputs, response \in FlowLookupResponses :
          LET r == async_step_filter(user_input, response) IN
          /\ Validate(user_input, response)
          /\ cur_step' = r.step
          /\ errors' = r.errors
          /\ self_filters' = IF r.appended = None THEN self_filters
                             ELSE Append(self_filters, r.appended[1])
    /\ UNCHANGED <<self_data, filter_to_edit, connected>>
    /\ FlowFrame

\* ConfigFlow.async_step_add_more (config_flow.py 213-237): back to the
\* filter form, or async_create_entry with the settings and the filters:
\* Home Assistant stores the entry, not yet set up.
AsyncStepAddMore ==
    /\ AtForm("add_more")
    /\ \E add_more \in BOOLEAN :
          IF add_more
          THEN /\ cur_step' = "filter"
               /\ UNCHANGED <<entry_data, entry_pc>>
          ELSE /\ cur_step' = "created"
               /\ entry_data' = SetItem(entry_data, FlowEntry,
                                   WithFilters(self_data[1], self_filters))
               /\ entry_pc' = SetItem(entry_pc, FlowEntry, "not_loaded")
    /\ errors' = NULL
    /\ UNCHANGED <<self_data, self_filters, filter_to_edit, validated,
                   connected, flow_pc, domain_data>>
    /\ UNCHANGED <<engine, pc, exc, now, entry, process, call>>

\* Home Assistant sets up the entry after its creation, or again after a
\* setup that failed: async_setup_entry up to its await, and after it.
EntrySetupBegin ==
    /\ cur_step \in {"created", "finished"} /\ flow_pc = "form"
    /\ SetupBegin(FlowEntry)
EntrySetupFinish ==
    /\ cur_step \in {"created", "finished"} /\ flow_pc = "form"
    /\ SetupFinish(FlowEntry)

\* OptionsFlowHandler.__init__ and async_step_init(None), which shows the
\* menu (config_flow.py 249-266).
OptionsFlowStart ==
    /\ cur_step \in {"created", "finished"} /\ flow_pc = "form"
    /\ entry_pc[FlowEntry] # "setup"
    /\ cur_step' = "init"
    /\ errors' = NULL
    /\ self_data' = config_entry
    /\ self_filters' = config_entry[1].filters
    /\ filter_to_edit' = None
    /\ validated' = {}
    /\ connected' = FALSE
    /\ FlowFrame

\* async_step_init with the menu's choice (config_flow.py 254-267).
AsyncStepInit ==
    /\ AtForm("init")
    /\ \E next_step_id \in {"server_settings", "manage_filters"} :
          cur_step' = next_step_id
    /\ UNCHANGED <<errors, self_data, self_filters, filter_to_edit,
                   validated, connected>>
    /\ FlowFrame

\* async_update_entry(entry, data=d) and the reload the step awaits next
\* (config_flow.py 314-320, 424-439, 550-565, 606-621), up to the first
\* point where it is suspended.  A loaded entry is unloaded:
\* async_unload_entry runs up to its await of the platform, with the
\* entry's data already new and its slot in hass.data still old.  An entry
\* that is not loaded has nothing to unload and its setup begins at once,
\* up to its await.  Home Assistant refuses to unload or set up an entry
\* that failed to unload before (OperationNotAllowed); the fallback
\* async_reload is refused likewise and the exception leaves the step.
UpdateAndReload(d) ==
    /\ entry_data' = SetItem(entry_data, FlowEntry, d)
    /\ UNCHANGED <<cur_step, services>>
    /\ IF entry_pc[FlowEntry] = "loaded"
       THEN /\ entry_pc' = [entry_pc EXCEPT ![FlowEntry] = "unloading"]
            /\ flow_pc' = "unload"
            /\ UNCHANGED domain_data
       ELSE IF entry_pc[FlowEntry] \in {"not_loaded", "setup_error"}
       THEN /\ entry_pc' = [entry_pc EXCEPT ![FlowEntry] = "setup"]
            /\ domain_data' = SetItem(domain_data, FlowEntry, EntrySlot(d))
            /\ flow_pc' = "setup"
       ELSE /\ flow_pc' = "raised"
            /\ UNCHANGED <<entry_pc, domain_data>>

\* self._data["filters"] = self._filters, async_update_entry and the
\* beginning of the reload (config_flow.py 420-439, 547-565, 603-621).
StoreFilters(fs) ==
    /\ self_filters' = fs
    /\ self_data' = Some(WithFilters(self_data[1], fs))
    /\ errors' = NULL
    /\ UpdateAndReload(WithFilters(self_data[1], fs))

\* The form again, with an error, and nothing else changed.
FormAgain(err) ==
    /\ errors' = err
    /\ UNCHANGED <<cur_step, flow_pc, self_data, self_filters, store,
                   services>>

\* async_step_server_settings (config_flow.py 269-341) up to its await of
\* the reload.
AsyncStepServerSettings ==
    /\ AtForm("server_settings")
    /\ \E user_input \in UserInputs, out \in ConnectionOutcomes :
          LET err == validate_input(out) IN
          IF err = NULL
          THEN /\ self_data' = Some(Update(self_data[1], WithName(user_input)))
               /\ connected' = TRUE
               /\ errors' = NULL
               /\ UNCHANGED self_filters
               /\ UpdateAndReload(Update(self_data[1], WithName(user_input)))
          ELSE FormAgain(err) /\ UNCHANGED connected
    /\ UNCHANGED <<filter_to_edit, validated>>
    /\ HassFrame

\* async_step_manage_filters (config_flow.py 343-373): the chosen step is
\* called without input and shows its form, with the error no_filters when
\* there is nothing to edit or to remove.
AsyncStepManageFilters ==
    /\ AtForm("manage_filters")
    /\ \E action \in {"add", "edit", "remove"} :
          /\ cur_step' = IF action = "add" THEN "add_filter"
                         ELSE IF action = "edit" THEN "edit_filter"
                         ELSE "remove_filter"
          /\ errors' = IF action # "add" /\ self_filters = <<>>
                       THEN "no_filters" ELSE NULL
    /\ UNCHANGED <<self_data, self_filters, filter_to_edit, validated,
                   connected>>
    /\ FlowFrame

\* async_step_add_filter (config_flow.py 375-441) up to its await of the
\* unload.
AsyncStepAddFilter ==
    /\ AtForm("add_filter")
    /\ Len(self_filters) < MaxStored
    /\ \E user_input \in FlowFilterInputs, response \in FlowLookupResponses :
          LET r == async_step_filter(user_input, response) IN
          /\ Validate(user_input, response)
          /\ IF r.appended = None
             THEN FormAgain(r.errors)
             ELSE StoreFilters(Append(self_filters, r.appended[1]))
    /\ UNCHANGED <<filter_to_edit, connected>>
    /\ HassFrame

\* The ids the form offers: the keys of filter_options.
FilterOptions == {self_filters[i].filter_id : i \in 1..Len(self_filters)}

\* next(f for f in self._filters if f["filter_id"] == filter_id)
FirstWithId(fs, filter_id) ==
    fs[CHOOSE i \in 1..Len(fs) :
          /\ fs[i].filter_id = filter_id
          /\ \A j \in 1..(i - 1) : fs[j].filter_id # filter_id]

\* async_step_edit_filter (config_flow.py 443-479).
AsyncStepEditFilter ==
    /\ AtForm("edit_filter")
    /\ IF self_filters = <<>>
       THEN /\ errors' = "no_filters"
            /\ UNCHANGED <<cur_step, filter_to_edit>>
       ELSE \E choice \in FilterOptions :
               /\ filter_to_edit' = Some(FirstWithId(self_filters, choice))
               /\ cur_step' = "edit_filter_details"
               /\ errors' = NULL
    /\ UNCHANGED <<self_data, self_filters, validated, connected>>
    /\ FlowFrame

\* The loop of async_step_edit_filter_details (config_flow.py 523-531) that
\* replaces every entry with the id, not the first alone.
ReplaceEvery(fs, filter_id, item) ==
    [i \in 1..Len(fs) |-> IF fs[i].filter_id = filter_id THEN item ELSE fs[i]]

\* for i, filter_item in enumerate(self._filters): if the id is that of
\* the filter to edit: self._filters[i] = item; break.
ReplaceFirst(fs, filter_id, item) ==
    [i \in 1..Len(fs) |->
        IF /\ fs[i].filter_id = filter_id
           /\ \A j \in 1..(i - 1) : fs[j].filter_id # filter_id
        THEN item ELSE fs[i]]

\* async_step_edit_filter_details (config_flow.py 481-567) up to its await
\* of the unload.
AsyncStepEditFilterDetails ==
    /\ AtForm("edit_filter_details")
    /\ \E user_input \in FlowFilterInputs, response \in FlowLookupResponses :
          LET r == async_step_filter(user_input, response) IN
          /\ Validate(user_input, response)
          /\ IF r.appended = None
             THEN FormAgain(r.errors)
             ELSE StoreFilters(ReplaceFirst(self_filters,
                                  filter_to_edit[1].filter_id, r.appended[1]))
    /\ UNCHANGED <<filter_to_edit, connected>>
    /\ HassFrame

\* A removal that drops the first entry with the id only.
WithoutFirst(fs, filter_id) ==
    LET first == CHOOSE i \in 1..Len(fs) :
                    /\ fs[i].filter_id = filter_id
                    /\ \A j \in 1..(i - 1) : fs[j].filter_id # filter_id
    IN SubSeq(fs, 1, first - 1) \o SubSeq(fs, first + 1, Len(fs))

\* A removal that keeps the other entries newest first: each entry kept
\* is put in front of those kept before it.
RECURSIVE WithoutNewestFirst(_, _)
WithoutNewestFirst(fs, filter_id) ==
    IF fs = <<>> THEN <<>>
    ELSE IF Head(fs).filter_id = filter_id
    THEN WithoutNewestFirst(Tail(fs), filter_id)
    ELSE WithoutNewestFirst(Tail(fs), filter_id) \o <<Head(fs)>>

\* [f for f in self._filters if f["filter_id"] != filter_id]
Without(fs, filter_id) ==
    SelectSeq(fs, LAMBDA f : f.filter_id # filter_id)

\* async_step_remove_filter (config_flow.py 569-623) up to its await of the
\* unload.
AsyncStepRemoveFilter ==
    /\ AtForm("remove_filter")
    /\ IF self_filters = <<>>
       THEN /\ errors' = "no_filters"
            /\ UNCHANGED <<cur_step, flow_pc, self_data, self_filters, store,
                           services>>
       ELSE \E filter_to_remove \in FilterOptions :
               StoreFilters(Without(self_filters, filter_to_remove))
    /\ UNCHANGED <<filter_to_edit, validated, connected>>
    /\ HassFrame

\* return self.async_create_entry(title="", data={}): the flow ends.
FlowFinished ==
    /\ cur_step' = "finished"
    /\ flow_pc' = "form"

\* The step goes on when the platform has answered the unload
\* (__init__.py 79-93).  Unloaded: the service named after the entry's
\* data, which is the updated data, is removed and the slot popped; the
\* step's next await is the setup, which writes the slot from the updated
\* data and awaits the platform (__init__.py 27-37).  Not unloaded: the
\* entry is left as it is; async_reload returns and the server settings
\* step ends the flow (config_flow.py 320-322), while async_setup after the
\* failed async_unload is refused, and so is the fallback async_reload
\* (config_flow.py 431-439), and the exception leaves the step.
ReloadUnloaded ==
    /\ flow_pc = "unload" /\ entry_pc[FlowEntry] = "unloading"
    /\ \E unload_ok \in BOOLEAN :
          IF unload_ok
          THEN /\ services' =
                     services \ {service_name(entry_data[FlowEntry])}
               /\ domain_data' =
                     SetItem(Pop(domain_data, FlowEntry), FlowEntry,
                             EntrySlot(entry_data[FlowEntry]))
               /\ entry_pc' = [entry_pc EXCEPT ![FlowEntry] = "setup"]
               /\ flow_pc' = "setup"
               /\ UNCHANGED cur_step
          ELSE /\ entry_pc' = [entry_pc EXCEPT ![FlowEntry] = "failed_unload"]
               /\ UNCHANGED <<services, domain_data>>
               /\ IF cur_step = "server_settings"
                  THEN FlowFinished
                  ELSE flow_pc' = "raised" /\ UNCHANGED cur_step
    /\ UNCHANGED <<errors, self_data, self_filters, filter_to_edit,
                   validated, connected, entry_data>>
    /\ HassFrame

\* The step goes on when the platform has answered the setup
\* (__init__.py 37-66): the service is registered under the name of the
\* updated data, or the setup's exception is caught and it returns False;
\* either way the step returns async_create_entry.
ReloadSetUp ==
    /\ flow_pc = "setup" /\ entry_pc[FlowEntry] = "setup"
    /\ \E forwarded \in BOOLEAN :
          IF forwarded
          THEN /\ services' =
                     services \cup {service_name(entry_data[FlowEntry])}
               /\ entry_pc' = [entry_pc EXCEPT ![FlowEntry] = "loaded"]
          ELSE /\ entry_pc' = [entry_pc EXCEPT ![FlowEntry] = "setup_error"]
               /\ UNCHANGED services
    /\ FlowFinished
    /\ UNCHANGED <<errors, self_data, self_filters, filter_to_edit,
                   validated, connected, entry_data, domain_data>>
    /\ HassFrame

FlowInit ==
    /\ NoEntry /\ NoCycle /\ NoCall /\ NoProcess /\ NoFlow /\ NoStore
    /\ pc = "idle"
    /\ now \in Clocks

FlowNext ==
    \/ ConfigFlowStart
    \/ AsyncStepUser
    \/ FlowStepFilter
    \/ AsyncStepAddMore
    \/ EntrySetupBegin
    \/ EntrySetupFinish
    \/ OptionsFlowStart
    \/ AsyncStepInit
    \/ AsyncStepServerSettings
    \/ AsyncStepManageFilters
    \/ AsyncStepAddFilter
    \/ AsyncStepEditFilter
    \/ AsyncStepEditFilterDetails
    \/ AsyncStepRemoveFilter
    \/ ReloadUnloaded
    \/ ReloadSetUp

FlowSpec == FlowInit /\ [][FlowNext]_vars

\* Published maps of one filter f1: none, the empty map, an error entry, and
\* success entries with up to AttrLimit + MaxIssues issues.
PublishedMaps ==
    {None, Some(<<>>), Some(<<ErrorResult("f1", ConfigName("f1"), Timeout)>>)}
    \cup {Some(<<SuccessResult("f1", ConfigName("f1"), "project = A",
                     SimplifyAll(Page(pattern, 0, n)))>>) :
             n \in 0..(AttrLimit + MaxIssues),
             pattern \in {"dated", "malformed"}}

\* extra_state_attributes of the sensor of filter arg.
ExtraStateAttributes ==
    /\ arg \in {"f1", "f2"}
    /\ Return(extra_state_attributes(arg))

AttributesInit ==
    /\ NoCycle /\ NoProcess /\ NoFlow /\ NoStore
    /\ now \in Clocks
    /\ phase = "loaded"
    /\ hass_data = None
    /\ services = {}
    /\ data \in PublishedMaps
    /\ last_update_success = TRUE
    /\ unsub_refresh = FALSE
    /\ inflight = 0
    /\ log = NULL
    /\ pc = "call"
    /\ arg \in {"f1", "f2"}
    /\ ret = <<>>

AttributesSpec == AttributesInit /\ [][ExtraStateAttributes]_vars

\* ------------------------------------------------------------ properties
\* The filter at idx-1 has been processed to its end: reqs and srv describe
\* it, and the loop is about to take the next filter or has returned.
FilterDone == pc \in {"resolve", "done"} /\ idx > 1
\* The run is a refresh cycle (and not the config flow's filter test).
Cycle == variant \in {"host", "batch"}
LastFilter == filters[idx - 1]
ResultsOf(f) == {i \in 1..Len(results) : results[i].filter_id = f}

Resolved      == reqs # <<>> /\ reqs[1].out = "ok"
ResolveFailed == reqs # <<>> /\ reqs[1].out \in FailOutcomes
IsSearch(r)   == r.rank >= 1
SearchFailed  == reqs # <<>> /\ IsSearch(reqs[Len(reqs)])
                    /\ reqs[Len(reqs)].out \in FailOutcomes
SearchOk      == \E i \in 1..Len(reqs) : IsSearch(reqs[i])
                    /\ \A j \in 1..Len(reqs) :
                          IsSearch(reqs[j]) /\ reqs[j].out # "ok"
                             => j < Len(reqs) /\ reqs[j + 1].rank = reqs[j].rank + 1

\* C1: when a refresh cycle returns, its output holds exactly one
\* FilterResult for every requested filter, whatever succeeded or failed.
C1_OneResultPerFilter ==
    Cycle /\ pc = "done" =>
       /\ Len(results) = Len(filters)
       /\ \A i \in 1..Len(filters) : Cardinality(ResultsOf(filters[i])) = 1

\* C2: partial failure.  A filter whose resolution failed has a result with
\* error set, total_count 0 and no issues; a filter whose resolution and
\* search succeeded has a result without error that carries its data.  It is
\* stated of each filter as it finishes, whatever the filters before it did.
C2_PartialFailure ==
    Cycle /\ FilterDone =>
       /\ ResolveFailed =>
             \E i \in ResultsOf(LastFilter) :
                /\ results[i].error # NULL
                /\ results[i].total_count = 0
                /\ results[i].issues = <<>>
       /\ Resolved /\ SearchOk =>
             \E i \in ResultsOf(LastFilter) :
                /\ results[i].error = NULL
                /\ results[i].jql = jql
                /\ results[i].total_count = Len(results[i].issues)

\* C3: every error raised while one filter is processed is turned into an
\* error entry for that filter; the host's refresh cycle itself never fails.
C3_CycleNeverFails ==
    variant = "host" => pc # "failed"

\* C4: in every FilterResult, error set implies no issues, total_count 0
\* and no most recent ticket.
C4_ErrorMeansEmpty ==
    \A i \in 1..Len(results) :
       results[i].error # NULL =>
          /\ results[i].issues = <<>>
          /\ results[i].total_count = 0
          /\ results[i].most_recent_ticket = None

\* C4 witness: a cycle that stored an error entry next to an entry with
\* issues.
C4_Witness ==
    \E i, j \in 1..Len(results) :
       /\ results[i].error # NULL
       /\ results[j].error = NULL
       /\ results[j].total_count > 0

\* C5: no FilterResult holds more than max_results issues, whatever page
\* sizes the server answers with.
C5_AtMostMaxResults ==
    \A i \in 1..Len(results) : Len(results[i].issues) <= max_results

\* C6: when the server holds at least max_results issues for the query,
\* answers every request and pages as documented, the filter's result holds
\* exactly the first max_results issues in server order.
C6_ExactlyMaxResults ==
    (/\ Cycle
     /\ FilterDone
     /\ \A i \in 1..Len(reqs) : reqs[i].out = "ok"
     /\ \E i \in 1..Len(reqs) : IsSearch(reqs[i])
     /\ srv.honest
     /\ srv.held >= max_results)
    => \E i \in ResultsOf(LastFilter) :
          /\ Len(results[i].issues) = max_results
          /\ \A k \in 1..max_results : results[i].issues[k].key = k

\* C7: endpoint fallback.  A search endpoint that answers with an HTTP error
\* status is followed by the next endpoint variant (primary, secondary,
\* tertiary) before the search of the filter ends; no variant is tried
\* before the one preceding it has failed, and none after one succeeded.
C7_FallbackOrder ==
    /\ \A i \in 1..Len(reqs) :
          reqs[i].rank > 1 =>
             /\ i > 1
             /\ reqs[i - 1].rank = reqs[i].rank - 1
             /\ reqs[i - 1].out = "http_error"
    /\ \A i \in 1..(Len(reqs) - 1) :
          IsSearch(reqs[i]) /\ reqs[i].out = "ok" => reqs[i + 1].rank <= 1
    /\ FilterDone =>
          \A i \in 1..Len(reqs) :
             reqs[i].rank \in {1, 2} /\ reqs[i].out = "http_error" =>
                /\ i < Len(reqs)
                /\ reqs[i + 1].rank = reqs[i].rank + 1

\* C8: a search whose page could not be fetched from any endpoint fails as a
\* whole: the filter's result carries an error and no issues, never a
\* success entry.
C8_FailedSearchIsError ==
    Cycle /\ FilterDone /\ SearchFailed =>
       /\ \E i \in ResultsOf(LastFilter) : results[i].error # NULL
       /\ \A i \in ResultsOf(LastFilter) :
             results[i].error # NULL /\ results[i].issues = <<>>

\* C9: no search request is ever issued with an empty query string.
C9_EmptyQueryNoSearch ==
    Cycle => \A i \in 1..Len(reqs) : IsSearch(reqs[i]) => reqs[i].jql # ""

\* C10: a filter that resolves to an empty query string gets a FilterResult
\* with total_count 0 and no error.
C10_EmptyQueryResult ==
    Cycle /\ FilterDone /\ Resolved /\ jql = "" =>
       \E i \in ResultsOf(LastFilter) :
          /\ results[i].total_count = 0
          /\ results[i].error = NULL

\* C11: the normalizer raises for no raw issue, and a part of the issue that
\* is missing or null in the input is null in the output, under a key that
\* is always there.
NormalizedKeys ==
    {"id", "key", "summary", "status", "assignee", "priority", "issueType",
     "parent", "labels", "created", "updated"}
\* The part of the raw issue under fields.k, <<>> when missing or null.
Part(k) ==
    IF "fields" \in DOMAIN arg /\ arg.fields # None
    THEN OrEmpty(GetObj(arg.fields[1], k)) ELSE <<>>
NullsForMissing ==
    /\ DOMAIN ret = NormalizedKeys
    /\ DOMAIN ret.status = {"name", "category"}
    /\ Part("status") = <<>> => ret.status.name = NULL
    /\ OrEmpty(GetObj(Part("status"), "statusCategory")) = <<>> =>
          ret.status.category = NULL
    /\ Part("assignee") = <<>> => ret.assignee = None
    /\ Part("priority") = <<>> => ret.priority = NULL
    /\ Part("issuetype") = <<>> => ret.issueType = NULL
    /\ Part("parent") = <<>> => ret.parent = None
    /\ Part("parent") # <<>> =>
          /\ ret.parent # None
          /\ OrEmpty(GetObj(Part("parent"), "fields")) = <<>> =>
                ret.parent[1].summary = NULL
C11_NormalizerTotal ==
    /\ pc # "raised"
    /\ pc = "returned" => NullsForMissing

\* C11 for every raw issue but the one with "fields": null.
NormalizerTotalWithFields ==
    /\ pc = "raised" => arg = [id |-> "10002", key |-> "JF-2", fields |-> None]
    /\ pc = "returned" => NullsForMissing

\* C12: the selection returns null for no issues; for issues that all carry
\* a timestamp it returns the issue whose updated string is greatest, and of
\* several with the greatest string the first in response order.
AllDated == \A i \in 1..Len(arg) : arg[i].updated \in Timestamps
C12_RecencySelection ==
    AllDated =>
       /\ pc # "raised"
       /\ pc = "returned" /\ arg = <<>> => ret = None
       /\ pc = "returned" /\ arg # <<>> =>
             /\ ret # None
             /\ \E i \in 1..Len(arg) :
                   /\ ret[1].key = arg[i].key
                   /\ ret[1].updated = arg[i].updated
                   /\ \A j \in 1..Len(arg) :
                         StrRank(arg[j].updated) <= StrRank(arg[i].updated)
                   /\ \A j \in 1..(i - 1) :
                         StrRank(arg[j].updated) < StrRank(arg[i].updated)

\* C12 witness: two issues share the greatest updated string, an older one
\* precedes them, and the first of the two was selected.
C12_Witness ==
    /\ pc = "returned"
    /\ Len(arg) = 3
    /\ arg[1].updated = Jan /\ arg[2].updated = Mar /\ arg[3].updated = Mar
    /\ ret # None /\ ret[1].key = 2

\* The spec's example: of Jan, Mar, Feb the March record is selected.
RecencyExample ==
    pc = "returned" /\ Len(arg) = 3
       /\ arg[1].updated = Jan /\ arg[2].updated = Mar
       /\ arg[3].updated = Feb =>
       ret[1].key = 2 /\ ret[1].updated = Mar

\* C13: for every non-negative age the relative-age string is the one the
\* bucket table gives: under a minute "just now", under an hour whole
\* minutes, under a day whole hours, then days, weeks (days // 7) from 7
\* days and months (days // 30) from 30 days; 60 seconds is "1 minute ago"
\* and 3600 seconds "1 hour ago".
BucketTable(age) ==
    LET days == age \div 86400 IN
    IF age < 60 THEN "just now"
    ELSE IF age < 3600 THEN Ago(age \div 60, "minute")
    ELSE IF age < 86400 THEN Ago(age \div 3600, "hour")
    ELSE IF days = 1 THEN "1 day ago"
    ELSE IF days < 7 THEN ToString(days) \o " days ago"
    ELSE IF days < 30 THEN Ago(days \div 7, "week")
    ELSE Ago(days \div 30, "month")

AgeOfArg == now - Seconds(arg)
C13_BucketTable ==
    pc = "returned" /\ arg \in Timestamps /\ AgeOfArg >= 0 =>
       ret = BucketTable(AgeOfArg)

\* C13, away from the two boundaries: the code tests seconds > 60 and
\* seconds > 3600, so every age but the exact minute and the exact hour
\* gets the table's string; 90 seconds, 3 days and 40 days among them.
OffBoundary(age) == age % 86400 \notin {60, 3600} \/ age >= 86400
HumanTimeOffBoundary ==
    pc = "returned" /\ arg \in Timestamps /\ AgeOfArg >= 0
       /\ OffBoundary(AgeOfArg) =>
       ret = BucketTable(AgeOfArg)
HumanTimeExamples ==
    pc = "returned" /\ arg = Mar =>
       /\ AgeOfArg = 90 => ret = "1 minute ago"
       /\ AgeOfArg = 3 * 86400 => ret = "3 days ago"
       /\ AgeOfArg = 40 * 86400 => ret = "1 month ago"

\* C14: a malformed updated value on the most recent issue does not fail
\* the aggregation: the response that carries it is assembled into the
\* filter's result, with no error and "unknown time" as the relative age.
C14_MalformedTimestamp ==
    Cycle =>
       /\ \A i \in 1..Len(results) :
             LET r == results[i] IN
             r.most_recent_ticket # None
                /\ DiffRaises(r.most_recent_ticket[1].updated)
                /\ r.most_recent_ticket[1].updated # NULL =>
                /\ r.error = NULL
                /\ r.most_recent_ticket[1].updated_human = "unknown time"
       /\ srv.pattern = "malformed" /\ reqs # <<>>
             /\ reqs[Len(reqs)].out = "ok" => pc # "failed"
       /\ FilterDone /\ srv.pattern = "malformed" /\ SearchOk
             /\ (\A i \in 1..Len(reqs) : reqs[i].out = "ok") =>
             \E i \in ResultsOf(LastFilter) : results[i].error = NULL

\* C14 witness: a finished filter whose most recent issue carries the
\* malformed timestamp.
C14_Witness ==
    /\ Cycle /\ FilterDone /\ srv.pattern = "malformed"
    /\ \E i \in ResultsOf(LastFilter) :
          /\ results[i].total_count >= 2
          /\ results[i].most_recent_ticket # None
          /\ results[i].most_recent_ticket[1].updated = BadStamp
          /\ results[i].most_recent_ticket[1].updated_human = "unknown time"

\* Taken by itself, the formatter answers "unknown time" for text that is
\* no date and for a date without an offset.
HumanTimeMalformed ==
    pc = "returned" /\ arg \in {BadStamp, NaiveStamp} => ret = "unknown time"

\* C15: once the entry is set up, an invocation of its refresh service
\* forces a refresh: when the handler has run, a cycle is in flight.
C15_ManualRefresh ==
    [][log' # log => log' = Refreshed /\ pc' # "idle" /\ inflight' >= 1]_vars

\* The entry is loaded without sensors: its first refresh failed, the
\* forward kept the exception to itself and the refresh service was
\* registered all the same; nothing is published and no timer is armed.
LoadedWithoutSensors ==
    /\ phase = "loaded" /\ data = None /\ ~last_update_success
    /\ ServiceName \in services /\ ~unsub_refresh /\ pc = "idle"

\* Only a first refresh that succeeded arms the interval: an entry loaded
\* without sensors starts no cycle.
NoCycleWithoutSensors ==
    [][phase = "loaded" /\ data = None /\ pc = "idle" => pc' = "idle"]_vars

\* C17: what the sensors read is the map of a completed cycle, with one entry
\* for every configured filter, and never the map a running cycle is
\* filling.
C17_AtomicPublish ==
    data # None =>
       /\ Len(data[1]) = Len(filters)
       /\ \A i \in 1..Len(filters) :
             \E k \in 1..Len(data[1]) : data[1][k].filter_id = filters[i]

\* C17 witness: the second cycle has stored its entry for the first of two
\* filters, and it differs from the published entry of that filter.
C17_Witness ==
    /\ Len(filters) = 2 /\ pc = "resolve" /\ idx = 2
    /\ data # None
    /\ Len(results) = 1
    /\ results[1] # data[1][1]

\* C18: a failure leaves the filter's previous result in place.  When a cycle
\* ends in which filter f failed, and the published result of f is that of
\* a successful cycle, the entry and the count its sensor exposes are
\* afterwards what they were before.
CycleEnds == pc \in {"done", "failed"} /\ pc' \in {"idle", "entities"}
FailedIn(f) ==
    \/ pc = "failed"
    \/ \E i \in 1..Len(results) :
          results[i].filter_id = f /\ results[i].error # NULL
EntryOf(d, f) ==
    IF d = None THEN {}
    ELSE {d[1][i] : i \in {k \in 1..Len(d[1]) : d[1][k].filter_id = f}}
HasGood(f) == \E e \in EntryOf(data, f) : e.error = NULL
C18_StaleOnFailure ==
    [][CycleEnds =>
          \A i \in 1..Len(filters) :
             FailedIn(filters[i]) /\ HasGood(filters[i]) =>
                /\ EntryOf(data', filters[i]) = EntryOf(data, filters[i])
                /\ native_value(filters[i])' = native_value(filters[i])]_vars

\* C18 for the cycle that fails as a whole: UpdateFailed leaves the
\* published map as it was.
StaleOnUpdateFailed ==
    [][pc = "failed" /\ pc' # "failed" => data' = data]_vars

\* C19: a request that times out takes the path of a request answered with
\* an error status.  Wherever a request is about to be issued, what follows
\* its failure (the next request or the end of the filter, and the entry
\* stored for the filter) is the same for both kinds of failure.
FailsWith(out) ==
    /\ Next
    /\ reqs' # reqs
    /\ reqs'[Len(reqs')].out = out
\* Where the engine stands after a step: the next thing to do, whether the
\* filter is finished, whether another endpoint is up, and whether an entry
\* and an error entry were stored.
Path(p) ==
    /\ pc' = p.pc
    /\ idx' - idx = p.filter
    /\ ep' - ep = p.endpoint
    /\ Len(results') - Len(results) = p.stored
    /\ (Len(results') > Len(results)
           /\ results'[Len(results')].error # NULL) = p.error
Paths ==
    [pc : {"resolve", "search", "assemble", "done", "failed"},
     filter : {0, 1}, endpoint : {0, 1}, stored : {0, 1}, error : BOOLEAN]
C19_TimeoutSamePath ==
    Cycle /\ pc \in {"resolve", "search"} =>
       \A p \in Paths :
          (ENABLED (FailsWith("transport") /\ Path(p)))
             <=> (ENABLED (FailsWith("http_error") /\ Path(p)))

\* C20: the value of a filter's sensor is the total_count of the filter's
\* entry in the published map, and 0 when nothing is published or the map
\* has no entry for the filter.
C20_SensorValue ==
    \A i \in 1..Len(filters) :
       LET f == filters[i] IN
       /\ data = None => native_value(f) = 0
       /\ data # None =>
             /\ \A k \in 1..Len(data[1]) :
                   data[1][k].filter_id = f =>
                      /\ native_value(f) = data[1][k].total_count
                      /\ native_value(f) = Len(data[1][k].issues)
             /\ (\A k \in 1..Len(data[1]) : data[1][k].filter_id # f) =>
                   native_value(f) = 0

\* C20 witness: the sensor shows the published count while the cycle in
\* flight has already stored another count for the filter; and a sensor
\* before the first publication.
C20_Witness ==
    /\ phase = "loaded" /\ pc = "resolve" /\ idx = 2
    /\ native_value(filters[1]) = MaxIssues
    /\ results[1].total_count = 1

\* C21: the issue list of a sensor's attribute bundle is the first
\* min(10, n) of the n issues published for its filter, in their order
\* (there is no list when n is 0), and the bundle's total_count is n.
C21_TruncatedIssues ==
    pc = "returned" /\ HasEntry(data, arg) =>
       LET issues == Published(data, arg).issues
           n      == Len(issues)
       IN
       /\ ret.total_count = n
       /\ n = 0 => "issues" \notin DOMAIN ret
       /\ n > 0 =>
             /\ "issues" \in DOMAIN ret
             /\ Len(ret.issues) = Min(10, n)
             /\ \A k \in 1..Len(ret.issues) :
                   ret.issues[k] = AttrIssue(issues[k])

\* C21 witness: the bundle of a filter with more than ten issues.
C21_Witness ==
    /\ pc = "returned" /\ HasEntry(data, arg)
    /\ Len(Published(data, arg).issues) = AttrLimit + 2
    /\ Len(ret.issues) = AttrLimit
    /\ ret.issues[AttrLimit].key = AttrLimit
    /\ ret.total_count = AttrLimit + 2

\* C22: the JSON document of a batch run is an array of FilterResult-shaped
\* objects when one filter is requested and a mapping from filter id to
\* FilterResult-shaped object when several are, whichever of them succeed
\* or fail.
ResultKeys == {"filter_name", "jql", "total_returned", "most_recent_ticket",
               "issues"}
Printed == pc = "exited" /\ exit_code = Some(0)
ArrayOfResults(doc) ==
    /\ doc.json = "array"
    /\ \A i \in 1..Len(doc.items) :
          DOMAIN doc.items[i] = ResultKeys \cup {"filter_id"}
MappingOfResults(doc) ==
    /\ doc.json = "object"
    /\ DOMAIN doc.members \subseteq {filters[i] : i \in 1..Len(filters)}
    /\ \A f \in DOMAIN doc.members :
          ResultKeys \subseteq DOMAIN doc.members[f]
C22_OutputShape ==
    Printed =>
       /\ Len(stdout) = 1
       /\ Len(filters) = 1 => ArrayOfResults(stdout[1])
       /\ Len(filters) > 1 => MappingOfResults(stdout[1])

\* C22 as far as it holds: the shape follows the number of results, and it
\* is the stated one whenever every requested filter has a result.
OutputShapeByResults ==
    Printed =>
       /\ Len(stdout) = 1
       /\ Len(results) <= 1 => ArrayOfResults(stdout[1])
       /\ Len(results) > 1 => MappingOfResults(stdout[1])
OutputShapeWhenNoneSkipped ==
    Len(results) = Len(filters) => C22_OutputShape

\* C23: an exception raised in a batch run after the arguments are parsed
\* is caught by main: the run prints exactly one JSON object with the keys
\* error, source and timestamp and exits with a status other than 0.
C23_ErrorObject ==
    variant = "batch" =>
       /\ pc = "failed" => ENABLED MainExcept
       /\ pc = "exited" /\ exc # NULL =>
             /\ Len(stdout) = 1
             /\ stdout[1].json = "object"
             /\ DOMAIN stdout[1].members = {"error", "source", "timestamp"}
             /\ stdout[1].members.error = exc
             /\ exit_code # None /\ exit_code[1] # 0

\* C23 witness: the first of two filters had its result, the second raised
\* AttributeError, and the run has ended with the error object.
C23_Witness ==
    /\ pc = "exited" /\ exc = "AttributeError"
    /\ Len(filters) = 2 /\ Len(results) = 1
    /\ stdout = <<ErrorOutput("AttributeError")>>
    /\ exit_code = Some(1)

\* C24: setup errors are fatal in batch mode.  A missing config file, a
\* required value that is missing, empty or a placeholder, an optional value
\* that is invalid, and an empty list of filter ids each end the process
\* with a status other than 0 before any request is issued.
Unusable(options, search_keys) ==
    \/ \A i \in 1..Len(search_keys) : search_keys[i] \notin DOMAIN options
    \/ \E i \in 1..Len(search_keys) :
          /\ search_keys[i] \in DOMAIN options
          /\ \/ Strip(options[search_keys[i]]) = ""
             \/ LooksPlaceholder(options[search_keys[i]])
RequiredValueError(config_file) ==
    /\ config_file.exists /\ config_file.parses
    /\ \/ Unusable(config_file.options, <<"base_url">>)
       \/ Unusable(config_file.options, <<"username", "email">>)
       \/ Unusable(config_file.options, <<"api_token">>)
InvalidValueError(config_file) ==
    /\ config_file.exists /\ config_file.parses
    /\ \/ /\ "verify_ssl" \in DOMAIN config_file.options
          /\ config_file.options["verify_ssl"] \notin BooleanStates
       \/ /\ "max_results" \in DOMAIN config_file.options
          /\ ~IsInt(config_file.options["max_results"])
NoFilterIds(args) ==
    \A i \in 1..Len(args.filters) : args.filters[i] \in {"", " "}
\* The process has exited with a status other than 0, or (a config file
\* that does not parse as well) main's handler is about to end it so.
FatalExit ==
    /\ \/ pc' = "exited" /\ exit_code' # None /\ exit_code'[1] # 0
       \/ pc' = "failed" /\ exit_code' = None
    /\ reqs' = <<>>
C24_SetupErrorsFatal ==
    [][pc = "boot" =>
          \A config_file \in ConfigFiles, args \in Argvs :
             /\ MainStart(config_file, args)
             /\ \/ ~config_file.exists
                \/ RequiredValueError(config_file)
                \/ InvalidValueError(config_file)
                \/ NoFilterIds(args)
             => FatalExit]_vars

\* C24 for the errors that the client and main test: a missing file, an
\* unusable required value and an empty list of filter ids.
RequiredSetupErrorsFatal ==
    [][pc = "boot" =>
          \A config_file \in ConfigFiles, args \in Argvs :
             /\ MainStart(config_file, args)
             /\ \/ ~config_file.exists
                \/ RequiredValueError(config_file)
                \/ NoFilterIds(args)
             => FatalExit]_vars
\* No request is issued before the client is built and the ids are split.
NoRequestAtBoot == pc = "boot" => reqs = <<>>

\* C25: in the host variant every FilterResult of a cycle carries the
\* configured name of its filter, whatever the server's name is now; in the
\* batch variant it carries the name of the server's definition, which is
\* looked up once per filter and run.
C25_DisplayName ==
    Cycle =>
       /\ \A i \in 1..Len(results) :
             LET f == results[i].filter_id IN
             /\ variant = "host" =>
                   /\ results[i].filter_name = ConfigName(f)
                   /\ results[i].filter_name # ServerName(f)
             /\ variant = "batch" => results[i].filter_name = ServerName(f)
       /\ \A j \in 1..Len(reqs) : reqs[j].rank = 0 => j = 1

\* C25 witness: a host cycle has stored an error entry and a success entry,
\* both under their configured names.
C25_Witness ==
    /\ variant = "host" /\ pc = "done" /\ Len(results) = 2
    /\ results[1].error # NULL /\ results[1].filter_name = "cfg f1"
    /\ results[2].error = NULL /\ results[2].filter_name = "cfg f2"

\* The configured name is the name the user gave or, when none was given,
\* the name of the server's definition when the filter was added.
ConfiguredNameChoice ==
    pc = "returned" /\ ret.appended # None =>
       LET given == arg.user_input.filter_name IN
       /\ ret.appended[1].filter_id = arg.user_input.filter_id
       /\ given \notin {NULL, ""} => ret.appended[1].filter_name = given
       /\ given \in {NULL, ""} /\ arg.response.name # None =>
             ret.appended[1].filter_name = arg.response.name[1]
\* A filter is added exactly when its lookup was answered with a definition.
ConfiguredOnlyWhenResolved ==
    pc = "returned" => (ret.appended # None <=> arg.response.out = "ok")

\* C26: nothing is retried within a cycle.  For one filter the definition
\* is requested exactly once, before every search request; no endpoint is
\* asked twice for the same page, so a failed request is not issued again.
C26_NoRetry ==
    Cycle =>
       /\ \A i, j \in 1..Len(reqs) :
             i < j => ~(reqs[i].ep = reqs[j].ep /\ reqs[i].token = reqs[j].token)
       /\ \A j \in 1..Len(reqs) : reqs[j].rank = 0 <=> j = 1
       /\ FilterDone => reqs # <<>> /\ reqs[1].f = LastFilter
       /\ \A i \in 1..(Len(reqs) - 1) :
             reqs[i].out \in FailOutcomes =>
                reqs[i + 1].rank = reqs[i].rank + 1

\* C26 witness: the host has asked each of its three search endpoints once,
\* every one failed, and the filter is finished.
C26_Witness ==
    /\ variant = "host" /\ FilterDone
    /\ Len(reqs) = 4
    /\ \A i \in 2..4 : reqs[i].out = "http_error"

\* The filters of a cycle are taken in order, each once.
FiltersInOrder == [][idx' \in {idx, idx + 1}]_vars

\* The paginated search stands between two pages, or has left its loop,
\* and the page requested last was answered and read.
PageRead ==
    /\ variant = "batch" /\ pc \in {"search", "assemble"}
    /\ reqs # <<>> /\ IsSearch(reqs[Len(reqs)])
    /\ reqs[Len(reqs)].out = "ok"
    /\ search_data # None
SignalsLast    == search_data[1].isLast = "true"
EmptyPage      == search_data[1].issues = 0
CapReached     == total_fetched = max_results
TokenAvailable == search_data[1].nextPageToken # 0

\* C28: the paginated search stops when the server signals the last page,
\* when a page has no issues and when max_results issues are fetched, and
\* issues no request after that; while none of the three holds and the
\* response carries a continuation token, the next page is requested.
C28_Termination ==
    /\ PageRead =>
          /\ SignalsLast \/ EmptyPage \/ CapReached => pc = "assemble"
          /\ ~(SignalsLast \/ EmptyPage \/ CapReached) /\ TokenAvailable =>
                pc = "search" /\ ENABLED SearchPage
    /\ pc = "assemble" => ~ENABLED SearchPage

\* C28 for responses that carry the isLast flag: search_issues reads a
\* response without the flag as the last page.
TerminationWithFlag ==
    PageRead /\ search_data[1].isLast # "absent" => C28_Termination
\* C28 with "signals the last page" read as the code reads it.
TerminationAsRead ==
    /\ PageRead =>
          /\ IsLast(search_data[1].isLast) \/ EmptyPage \/ CapReached =>
                pc = "assemble"
          /\ ~(IsLast(search_data[1].isLast) \/ EmptyPage \/ CapReached)
                /\ TokenAvailable =>
                pc = "search" /\ ENABLED SearchPage
    /\ pc = "assemble" => ~ENABLED SearchPage

\* A search request of the paginated executor is issued in this step.
SearchIssued ==
    /\ variant = "batch"
    /\ Len(reqs') = Len(reqs) + 1
    /\ IsSearch(reqs'[Len(reqs')])

\* C29: the first search request of a filter carries no continuation token
\* and every later one carries the token of the response before it; a
\* response without a token, or with an empty one, ends the search also when
\* the server did not flag the page as the last.
C29_Continuation ==
    [][/\ SearchIssued =>
             reqs'[Len(reqs')].token =
                IF search_data = None THEN 0
                ELSE search_data[1].nextPageToken
       /\ SearchIssued /\ search_data = None => Len(reqs) = 1
       /\ PageRead' /\ ~TokenAvailable' => pc' = "assemble"]_vars

\* C29 witness: the second page was asked for with the token of the first,
\* and its response, not flagged as the last and under the cap, carries no
\* token: the search has ended.
C29_Witness ==
    /\ PageRead /\ pc = "assemble"
    /\ Len(reqs) = 3 /\ reqs[2].token = 0 /\ reqs[3].token = 1
    /\ search_data[1].isLast = "false" /\ ~TokenAvailable
    /\ ~EmptyPage /\ total_fetched < max_results

\* C30: every search request of the paginated executor asks for
\* min(1000, max_results - fetched) issues: at least 1, at most 1000 and no
\* more than the cap still allows.
C30_PageSize ==
    [][SearchIssued =>
          LET size      == reqs'[Len(reqs')].size
              remaining == max_results - total_fetched
          IN
          /\ size = IF 1000 < remaining THEN 1000 ELSE remaining
          /\ size >= 1
          /\ size <= 1000
          /\ size <= remaining]_vars

\* C30 witness: with max_results 1001 the first page was asked for with
\* size 1000 and, two issues later, the second with size 999.
C30_Witness ==
    /\ variant = "batch" /\ max_results = PageCap + 1
    /\ Len(reqs) = 3
    /\ reqs[2].size = PageCap /\ reqs[3].size = PageCap - 1

\* The search requests of the filter in hand.
SearchRequests == SelectSeq(reqs, IsSearch)

\* C31: search_issues terminates whatever the server answers: it issues at
\* most max(max_results, 0) search requests, none at all (and an empty list)
\* when max_results <= 0, and every request after which the loop goes on has
\* added an issue to the collection and left the count under the cap.
C31_SearchTerminates ==
    [][variant = "batch" =>
          /\ Len(SearchRequests') <=
                 (IF max_results' > 0 THEN max_results' ELSE 0)
          /\ max_results' <= 0 /\ pc' = "assemble" => collected' = <<>>
          /\ SearchIssued /\ pc' = "search" =>
                /\ total_fetched' > total_fetched
                /\ total_fetched' < max_results'
          /\ pc = "search" => ENABLED SearchPage]_vars

\* C31 witness: with max_results 2 the server answered both requests with
\* one issue, a token and isLast = false, and the search has ended after
\* the second.
C31_Witness ==
    /\ variant = "batch" /\ max_results = 2 /\ pc = "assemble"
    /\ Len(SearchRequests) = 2
    /\ \A i \in 1..Len(reqs) : reqs[i].out = "ok"
    /\ PageRead /\ ~SignalsLast /\ ~EmptyPage /\ TokenAvailable
    /\ Len(collected) = 2

\* C31, max_results <= 0: the search of a filter with a query has ended
\* without a request.
SearchSkippedWitness ==
    /\ variant = "batch" /\ max_results < 0 /\ pc = "assemble"
    /\ jql # "" /\ Len(reqs) = 1 /\ collected = <<>>

\* C32: in every FilterResult of either variant the count is the length of
\* the issues, the most recent ticket is null exactly when there are no
\* issues, and its key is the key of one of the issues of the same result.
C32_ResultConsistent ==
    Cycle =>
       \A i \in 1..Len(results) :
          LET r == results[i] IN
          /\ r.total_count = Len(r.issues)
          /\ r.most_recent_ticket = None <=> r.issues = <<>>
          /\ r.most_recent_ticket # None =>
                \E k \in 1..Len(r.issues) :
                   r.issues[k].key = r.most_recent_ticket[1].key

\* C32 witness: a cycle's output holds a result with two issues and a most
\* recent ticket, and a result without issues and without a ticket.
C32_Witness ==
    /\ Cycle /\ pc = "done"
    /\ \E i, j \in 1..Len(results) :
          /\ Len(results[i].issues) = 2
          /\ results[i].most_recent_ticket # None
          /\ results[j].issues = <<>>
          /\ results[j].most_recent_ticket = None

\* C33: for two or more normalized issues, some of them possibly with a null
\* updated value, the most recent selection raises nothing and returns a
\* ticket, and never an issue without a timestamp when another has one.
C33_NullUpdatedSafe ==
    Len(arg) >= 2 =>
       /\ pc # "raised"
       /\ pc = "returned" =>
             /\ ret # None
             /\ (\E i \in 1..Len(arg) : arg[i].updated # NULL) =>
                   ret[1].updated # NULL

\* The selection raises exactly for two or more issues of which one has a
\* null updated value; a single such issue is returned as the ticket.
RaisesOnNullAmongSeveral ==
    /\ pc = "raised" =>
          /\ exc = "TypeError" /\ Len(arg) >= 2
          /\ \E i \in 1..Len(arg) : arg[i].updated = NULL
    /\ pc = "returned" /\ Len(arg) = 1 =>
          ret # None /\ ret[1].key = arg[1].key

\* The ids of a filter list, in order.
IdsOf(fs) == [i \in 1..Len(fs) |-> fs[i].filter_id]

\* The ids of the stored entry's filters.
IdsOfStored ==
    {config_entry[1].filters[i].filter_id :
        i \in 1..Len(config_entry[1].filters)}

\* C34: in the initial flow an entry is created only after the connection
\* test passed and a filter was accepted, every filter of the created entry
\* was accepted by the server's lookup, and a filter step that ends with an
\* error appends nothing.
C34_EntryCreation ==
    [][/\ cur_step' \in {"user", "filter", "add_more"} => config_entry' = None
       /\ config_entry = None /\ config_entry' # None =>
             /\ cur_step = "add_more" /\ connected
             /\ config_entry'[1].filters # <<>>
             /\ \A i \in 1..Len(config_entry'[1].filters) :
                   config_entry'[1].filters[i].filter_id \in validated
       /\ cur_step = "filter" /\ errors' # NULL =>
             self_filters' = self_filters /\ cur_step' = "filter"]_vars

\* C34 witness: the initial flow has created an entry with two filters.
C34_Witness ==
    /\ cur_step = "created" /\ config_entry # None
    /\ Len(config_entry[1].filters) = 2
    /\ connected /\ validated = {"f1", "f2"}

\* A filter id was rejected after another was accepted: the list holds the
\* accepted filter alone.
RejectedFilterWitness ==
    /\ cur_step = "filter" /\ errors = "invalid_filter"
    /\ IdsOf(self_filters) = <<"f1">> /\ validated = {"f1"}

\* No two entries of a filter list have the same filter id.
UniqueIds(fs) ==
    \A i, j \in 1..Len(fs) : fs[i].filter_id = fs[j].filter_id => i = j

\* C35: whatever was added in the initial flow and added, edited or removed
\* in options flows, the configured filter list holds no filter id twice.
C35_UniqueFilterIds ==
    config_entry # None => UniqueIds(config_entry[1].filters)

\* A removal leaves no id twice, and never makes a list with distinct ids
\* one without; the ids are repeated by the steps that add or edit.
RemoveKeepsUnique ==
    [][cur_step = "remove_filter" /\ UniqueIds(self_filters)
          => UniqueIds(self_filters')]_vars

\* The entries of fs with another id than filter_id, in the order of fs.
RECURSIVE Others(_, _)
Others(fs, filter_id) ==
    IF fs = <<>> THEN <<>>
    ELSE IF Head(fs).filter_id = filter_id THEN Others(Tail(fs), filter_id)
    ELSE <<Head(fs)>> \o Others(Tail(fs), filter_id)

\* The server settings of stored entry data: everything but the filters.
Settings(d) == [k \in DOMAIN d \ {"filters"} |-> d[k]]

\* The remove step has removed a filter and updated the stored entry; the
\* reload it awaits next has begun.
Removed == AtForm("remove_filter") /\ flow_pc' # "form"

\* C36: the remove operation deletes every entry with the selected id and
\* leaves the other entries as they were and in their order; the server
\* settings of the stored configuration are unchanged, by the removal and
\* by the reload of the entry that the step awaits before it ends.
C36_RemoveFrame ==
    [][/\ Removed =>
             /\ \E filter_to_remove \in IdsOfStored :
                   /\ config_entry'[1].filters =
                         Others(config_entry[1].filters, filter_to_remove)
                   /\ \A i \in 1..Len(config_entry'[1].filters) :
                         config_entry'[1].filters[i].filter_id
                            # filter_to_remove
             /\ Settings(config_entry'[1]) = Settings(config_entry[1])
             /\ self_filters' = config_entry'[1].filters
       /\ cur_step = "remove_filter" /\ flow_pc # "form" =>
             /\ config_entry' = config_entry
             /\ self_filters' = self_filters]_vars

\* C36 witness: an options flow that validated nothing, tested no
\* connection and selected nothing to edit has ended after its reload set
\* the entry up again, so a removal is all it did: it removed the one
\* filter f2 from a list of three, and the two others, f3 and f1, are what
\* the stored entry and the entry's slot hold, f3 still before f1.
C36_Witness ==
    /\ cur_step = "finished" /\ filter_to_edit = None /\ validated = {}
    /\ ~connected
    /\ entry_pc[FlowEntry] = "loaded"
    /\ IdsOf(domain_data[FlowEntry].data.filters) = <<"f3", "f1">>
    /\ IdsOf(config_entry[1].filters) = <<"f3", "f1">>
    /\ Len(self_data[1].filters) = 2

\* A removal took both entries of an id out of a list of three and left
\* the third: the options flow that did nothing else has ended with f2
\* alone, while the server never was asked about more than f1 and f2 and
\* the list held three entries.
RemovedBothOfAnId ==
    /\ cur_step = "finished" /\ filter_to_edit = None /\ validated = {}
    /\ ~connected
    /\ IdsOf(config_entry[1].filters) = <<"f2">>
    /\ Len(self_data[1].filters) = 1

\* C37: an edit whose new filter id validates replaces one entry, the first
\* with the id of the selected filter, where it stands, and keeps the length
\* of the list and every other entry; an edit whose validation fails or
\* raises leaves the filter list and the stored entry as they were; so
\* does the reload of the entry that the step awaits before it ends.
C37_EditFrame ==
    [][/\ cur_step = "edit_filter_details" /\ flow_pc # "form" =>
             /\ config_entry' = config_entry
             /\ self_filters' = self_filters
       /\ AtForm("edit_filter_details") =>
          LET old == config_entry[1].filters
              new == config_entry'[1].filters
              selected == filter_to_edit[1].filter_id
          IN
          /\ flow_pc' # "form" =>
                /\ Len(new) = Len(old)
                /\ \E p \in 1..Len(old) :
                      /\ old[p].filter_id = selected
                      /\ \A j \in 1..(p - 1) : old[j].filter_id # selected
                      /\ new[p].filter_id \in validated'
                      /\ \A i \in 1..Len(old) : i # p => new[i] = old[i]
                /\ Settings(config_entry'[1]) = Settings(config_entry[1])
                /\ self_filters' = new
          /\ flow_pc' = "form" =>
                /\ errors' \in {"invalid_filter", "unknown"}
                /\ self_filters' = self_filters
                /\ config_entry' = config_entry]_vars

\* C37 witness: the list held f1 twice, f1 was selected and edited to f2,
\* the only id the server was asked about: the first entry is f2 now and
\* the second is still f1, and the step has ended after its reload.
C37_Witness ==
    /\ cur_step = "finished" /\ filter_to_edit # None
    /\ entry_pc[FlowEntry] = "loaded"
    /\ filter_to_edit[1].filter_id = "f1"
    /\ validated = {"f2"}
    /\ IdsOf(config_entry[1].filters) = <<"f2", "f1">>

\* An edit was rejected: the form is shown again and the stored list is the
\* one the flow started with.
EditRejectedWitness ==
    /\ AtForm("edit_filter_details") /\ errors = "invalid_filter"
    /\ self_filters = config_entry[1].filters /\ Len(self_filters) = 2

\* The entries whose setup has succeeded and whose unload has not begun.
Loaded == {e \in EntryIds : entry_pc[e] = "loaded"}

\* C38: whatever the interleaving of setups and unloads, the refresh service
\* of every loaded entry is registered, and an entry that was unloaded has
\* no slot in the shared store.
C38_ServicesAndStore ==
    /\ \A e \in Loaded : service_name(entry_data[e]) \in services
    /\ \A e \in EntryIds : entry_pc[e] = "not_loaded" => e \notin DOMAIN domain_data

\* The second half of C38: an unloaded entry has no slot in the store, and
\* the slots are those of the entries that were set up and not unloaded.
StoreClearedOnUnload ==
    /\ \A e \in EntryIds : entry_pc[e] = "not_loaded" => e \notin DOMAIN domain_data
    /\ \A e \in Loaded : e \in DOMAIN domain_data

\* The first half of C38 for an entry whose service name no other entry
\* has: its service is registered while it is loaded.
ServiceKeptWithOwnName ==
    \A e \in Loaded :
       (\A o \in EntryIds \ {e} :
           service_name(entry_data[o]) # service_name(entry_data[e]))
       => service_name(entry_data[e]) \in services

\* A step of the options flow is suspended in its reload: the entry's data
\* is already the updated data while the entry's slot in the store still
\* holds the data of before.
ReloadSeesOldSlot ==
    /\ flow_pc = "unload"
    /\ domain_data[FlowEntry].data # entry_data[FlowEntry]

\* After the server settings step renamed the connection and reloaded the
\* entry, the service of the old name is still registered beside the new
\* one: the unload took the name to remove from the updated data.
OldServiceLeftAfterRename ==
    /\ cur_step = "finished" /\ entry_pc[FlowEntry] = "loaded"
    /\ entry_data[FlowEntry].name = "Jira"
    /\ services = {"refresh_work", "refresh_jira"}

\* C39: for an updated timestamp after the reference clock (a negative age)
\* the relative age is "just now".
C39_FutureTimestamp ==
    pc = "returned" /\ arg \in Timestamps /\ AgeOfArg < 0 =>
       ret = "just now"

\* What the formatter answers for a timestamp one second ahead of the
\* clock: the timedelta is normalised to -1 day and 86399 seconds.
FutureReadAsHours ==
    pc = "returned" /\ arg \in Timestamps /\ AgeOfArg = -1 =>
       ret = "23 hours ago"

\* ------------------------------------------- where the statements hold
\* Each statement above that the engine as a whole violates holds of the
\* variant that implements it.
H(P) == variant = "host" => P
B(P) == variant = "batch" => P

\* The host stores one entry per configured filter and an error entry for
\* every failed lookup; its search falls back in order and a failed search
\* is an error entry.
HostOneResultPerFilter  == H(C1_OneResultPerFilter)
HostPartialFailure      == H(C2_PartialFailure)
HostFallbackOrder       == H(C7_FallbackOrder)
HostFailedSearchIsError == H(C8_FailedSearchIsError)

\* The config flow's filter test falls back in its own order.
ProbeFallbackOrder == variant = "probe" => C7_FallbackOrder

\* search_issues caps and paginates, and run_filters never searches with an
\* empty query.
BatchAtMostMaxResults   == B(C5_AtMostMaxResults)
BatchExactlyMaxResults  == B(C6_ExactlyMaxResults)
BatchEmptyQueryNoSearch == B(C9_EmptyQueryNoSearch)

\* C19 holds of the filter lookup in both variants and of every request of
\* the batch variant: get_filter and search_issues catch RequestException.
SamePathAtLookup == pc = "resolve" => C19_TimeoutSamePath
BatchTimeoutSamePath == B(C19_TimeoutSamePath)

====
